---- MODULE Spec2Model ----
(***************************************************************************)
(* State-machine model of the Lethe capability lifecycle:                  *)
(*   CapabilityRegistry (src/src/capability.py)                            *)
(*   DecayEngine        (src/src/decay_engine.py)                          *)
(*   SafetyLayer        (src/src/safety.py)                                *)
(*   Introspector       (src/src/introspection.py)                         *)
(*   Lethe              (src/src/lethe.py)                                 *)
(*                                                                         *)
(* Each Python object is one variable holding a record of its fields.      *)
(* Methods are operators from the objects (and the method's inputs) to the *)
(* objects after the call, named as in the source.                         *)
(*                                                                         *)
(* Numbers.  degradation_resistance is held in tenths (0..10 for 0.0..1.0),*)
(* decay_probability in hundredths, a draw of random.Random.random() as a  *)
(* numerator over 1000, and time.time() as an integer clock.  Weights are  *)
(* scaled by 900 so that all arithmetic of select_target is exact.         *)
(***************************************************************************)
EXTENDS Integers, Sequences, FiniteSets, TLC

\* ------------------------------------------------------------------ bounds
MaxClock == 1
MaxIterations == 1
MaxHistory == 3
MaxTotal == 8
MaxCrowd == 21
MaxExecutions == 2
MaxEngineClock == 2
MaxInterventions == 2
MaxRunIterations == 2
MaxLimit == 2

\* --------------------------------------------------------------- constants
TRIVIAL == 1
LOW == 2
MEDIUM == 3
HIGH == 4
CRITICAL == 5
ESSENTIAL == 6

MIN_CAPABILITIES == 1

\* SafetyLayer.THRESHOLDS
THRESHOLD_NORMAL == 60
THRESHOLD_CAUTION == 40
THRESHOLD_WARNING == 25
THRESHOLD_CRITICAL == 10

\* names a caller may use; "emergency_heartbeat" is the name the safety
\* layer registers
UserNames == {"a", "b", "c"}
HeartbeatName == "emergency_heartbeat"
AllNames == UserNames \cup {HeartbeatName}

\* a name no capability is ever registered under
Unregistered == "unregistered"

\* inputs of register_function; func is a function, or a callable object
\* that is false in a boolean context ("falsy": one defining __len__ or
\* __bool__)
InputImportance == {TRIVIAL, ESSENTIAL}
InputResistance == {5}
InputFunction == {"function"}
ApiFunction == {"function", "falsy"}

\* constructor arguments of Lethe
InputInterval == {1}
InputProbability == {40}

\* values of random.Random.random(), numerators over 1000
Draws == {0, 600, 999}

None == <<>>
Some(x) == <<x>>

Max(a, b) == IF a >= b THEN a ELSE b
Min(a, b) == IF a <= b THEN a ELSE b

InSeq(x, s) == \E i \in 1..Len(s) : s[i] = x

\* the value of a callable, and of a name, in a boolean context
TruthyFunction(func) == func # "falsy"
TruthyName(name) == name # ""

VARIABLES
    registry,   \* CapabilityRegistry
    engine,     \* DecayEngine
    safety,     \* SafetyLayer
    introspector, \* Introspector
    lethe,      \* Lethe
    clock,      \* time.time()
    twin,       \* the objects of a second Lethe instance (SpecPair)
    gens,       \* how many values each generator has yielded (SpecPair)
    stream,     \* the values random.Random(seed) yields (SpecPair)
    frame,      \* the call of Lethe.run in progress, if any (SpecRun)
    calls       \* the apply_decay calls in progress, per thread (SpecRace)

vars == <<registry, engine, safety, introspector, lethe, clock,
          twin, gens, stream, frame, calls>>

\* ================================================================ Registry
\* CapabilityMetadata as stored by register / register_function
NewMetadata(func, importance, degradation_resistance) ==
    [importance |-> importance,
     degradation_resistance |-> Max(0, Min(10, degradation_resistance)),
     original_function |-> func,
     is_degraded |-> FALSE,
     degradation_level |-> 0,
     execution_count |-> 0,
     dependencies |-> <<>>]

\* CapabilityRegistry.__init__
NewRegistry ==
    [capabilities |-> <<>>,
     metadata |-> <<>>,
     order |-> <<>>,
     degraded_capabilities |-> <<>>,
     deleted_capabilities |-> <<>>]

\* CapabilityRegistry.register_function: both dictionaries are assigned
\* unconditionally; a key that is already present keeps its position.  The
\* implementation stored is the counting wrapper around func ("original").
register_function(R, func, name, importance, degradation_resistance) ==
    [R EXCEPT
       !.capabilities = (name :> "original") @@ R.capabilities,
       !.metadata = (name :> NewMetadata(func, importance,
                                         degradation_resistance))
                        @@ R.metadata,
       !.order = IF InSeq(name, R.order) THEN R.order
                 ELSE Append(R.order, name)]

\* register_function called with dependencies=dependencies: the list is
\* stored in the metadata of name as given
register_with_dependencies(R, func, name, importance, resistance, deps) ==
    [register_function(R, func, name, importance, resistance)
        EXCEPT !.metadata[name].dependencies = deps]

\* CapabilityRegistry.get_dependents
get_dependents(R, name) ==
    {n \in DOMAIN R.metadata : InSeq(name, R.metadata[n].dependencies)}

\* CapabilityRegistry.get
get(R, name) ==
    IF InSeq(name, R.deleted_capabilities) THEN None
    ELSE IF name \in DOMAIN R.capabilities THEN Some(R.capabilities[name])
    ELSE None

\* CapabilityRegistry.get_metadata
get_metadata(R, name) ==
    IF name \in DOMAIN R.metadata THEN Some(R.metadata[name]) ELSE None

\* CapabilityRegistry.list_capabilities
list_capabilities(R) ==
    SelectSeq(R.order, LAMBDA n : ~InSeq(n, R.deleted_capabilities))

\* CapabilityRegistry.list_active_capabilities
list_active_capabilities(R) ==
    SelectSeq(R.order, LAMBDA n : /\ ~R.metadata[n].is_degraded
                                  /\ ~InSeq(n, R.deleted_capabilities))

\* CapabilityRegistry.list_degraded_capabilities
list_degraded_capabilities(R) == R.degraded_capabilities

\* CapabilityRegistry.list_deleted_capabilities
list_deleted_capabilities(R) == R.deleted_capabilities

\* mark_degraded setting the flag and the list but not the level
mark_degraded_flag_only(R, name, level) ==
    IF name \in DOMAIN R.metadata
    THEN [R EXCEPT
            !.metadata[name].is_degraded = TRUE,
            !.degraded_capabilities =
                IF InSeq(name, R.degraded_capabilities) THEN @
                ELSE Append(@, name)]
    ELSE R

\* CapabilityRegistry.mark_degraded
mark_degraded(R, name, level) ==
    IF name \in DOMAIN R.metadata
    THEN [R EXCEPT
            !.metadata[name].is_degraded = TRUE,
            !.metadata[name].degradation_level = level,
            !.degraded_capabilities =
                IF InSeq(name, R.degraded_capabilities) THEN @
                ELSE Append(@, name)]
    ELSE R

\* CapabilityRegistry.mark_deleted
mark_deleted(R, name) ==
    mark_degraded(
        [R EXCEPT !.deleted_capabilities =
                      IF InSeq(name, @) THEN @ ELSE Append(@, name)],
        name, 3)

\* CapabilityRegistry.replace_capability
replace_capability(R, name, new_func) ==
    IF name \in DOMAIN R.capabilities
    THEN [R EXCEPT !.capabilities[name] = new_func]
    ELSE R

\* CapabilityRegistry.capability_count
capability_count(R) == Cardinality(DOMAIN R.capabilities)

\* CapabilityRegistry.active_count
active_count(R) == Len(list_active_capabilities(R))

\* the sort key of get_degradation_candidates, compared as Python tuples
KeyLE(R, x, y) ==
    \/ R.metadata[x].importance < R.metadata[y].importance
    \/ /\ R.metadata[x].importance = R.metadata[y].importance
       /\ R.metadata[x].degradation_resistance
              <= R.metadata[y].degradation_resistance

\* list.sort is stable: x goes after every element whose key is <= its own
RECURSIVE InsertSorted(_, _, _)
InsertSorted(R, s, x) ==
    IF s = <<>> THEN <<x>>
    ELSE IF KeyLE(R, s[1], x) THEN <<s[1]>> \o InsertSorted(R, Tail(s), x)
    ELSE <<x>> \o s

RECURSIVE StableSort(_, _)
StableSort(R, s) ==
    IF s = <<>> THEN <<>>
    ELSE InsertSorted(R, StableSort(R, SubSeq(s, 1, Len(s) - 1)), s[Len(s)])

\* CapabilityRegistry.get_degradation_candidates
get_degradation_candidates(R) ==
    StableSort(R,
        SelectSeq(R.order,
            LAMBDA n : /\ R.metadata[n].importance # ESSENTIAL
                       /\ ~InSeq(n, R.deleted_capabilities)
                       /\ R.metadata[n].degradation_level < 3))

\* ============================================================= DecayEngine
\* DecayEngine.__init__; _last_decay_time is time.time() at construction
NewEngine(decay_interval, decay_probability, now) ==
    [decay_interval |-> decay_interval,
     decay_probability |-> decay_probability,
     decay_history |-> <<>>,
     last_decay_time |-> now,
     total_decays |-> 0,
     is_enabled |-> TRUE]

\* should_decay without the test of the elapsed interval
should_decay_no_interval(E, now, u) ==
    IF ~E.is_enabled THEN [result |-> FALSE, used |-> 0]
    ELSE [result |-> (u * 100 < E.decay_probability * 1000), used |-> 1]

\* should_decay without the test of is_enabled
should_decay_when_disabled(E, now, u) ==
    IF now - E.last_decay_time < E.decay_interval
    THEN [result |-> FALSE, used |-> 0]
    ELSE [result |-> (u * 100 < E.decay_probability * 1000), used |-> 1]

\* DecayEngine.should_decay; the draw u is consumed only when the engine is
\* enabled and the interval has elapsed
should_decay(E, now, u) ==
    IF ~E.is_enabled THEN [result |-> FALSE, used |-> 0]
    ELSE IF now - E.last_decay_time < E.decay_interval
    THEN [result |-> FALSE, used |-> 0]
    ELSE [result |-> (u * 100 < E.decay_probability * 1000), used |-> 1]

\* the weight without its minimum of 0.01
Weight_unfloored(meta) ==
    5 * (7 - meta.importance) * (10 - meta.degradation_resistance)
      * (IF meta.is_degraded THEN 3 - meta.degradation_level ELSE 3)

\* the weight select_target gives a candidate, times 900:
\* importance_weight = (7 - importance) / 6.0,
\* resistance_weight = 1.0 - degradation_resistance,
\* times (3 - degradation_level) / 3.0 when is_degraded, at least 0.01
Weight(meta) ==
    Max(9, 5 * (7 - meta.importance) * (10 - meta.degradation_resistance)
             * (IF meta.is_degraded THEN 3 - meta.degradation_level ELSE 3))

RECURSIVE SumWeights(_, _, _)
SumWeights(R, candidates, i) ==
    IF i = 0 THEN 0
    ELSE SumWeights(R, candidates, i - 1) + Weight(R.metadata[candidates[i]])

\* DecayEngine.select_target with r = u * total_weight: the first candidate
\* whose cumulative weight is >= r
select_target(R, u) ==
    LET candidates == get_degradation_candidates(R)
        total_weight == SumWeights(R, candidates, Len(candidates))
        hits == {i \in 1..Len(candidates) :
                    u * total_weight <= SumWeights(R, candidates, i) * 1000}
    IN  IF candidates = <<>> THEN [target |-> None, used |-> 0]
        ELSE IF hits = {} THEN [target |-> Some(candidates[Len(candidates)]),
                                used |-> 1]
        ELSE [target |-> Some(candidates[CHOOSE i \in hits :
                                            \A j \in hits : i <= j]),
              used |-> 1]

\* the decay kind apply_decay records for a new level: decay_type starts as
\* "" and the branch for level 1 sets it only if meta.original_function is
\* true in a boolean context
DecayType(meta, new_level) ==
    CASE new_level = 1 -> IF TruthyFunction(meta.original_function)
                          THEN "approximate" ELSE ""
      [] new_level = 2 -> "stub"
      [] new_level = 3 -> "delete"
      [] OTHER -> ""

\* the registry after the branch of apply_decay for new_level, before the
\* final mark_degraded
DecayEffect(R, name, new_level) ==
    CASE new_level = 1 ->
             IF TruthyFunction(R.metadata[name].original_function)
             THEN replace_capability(R, name, "approximated") ELSE R
      [] new_level = 2 -> replace_capability(R, name, "stub")
      [] new_level = 3 -> mark_deleted(R, name)
      [] OTHER -> R

\* apply_decay without the "already fully degraded" return
apply_decay_past_deleted(S, name, now) ==
    LET meta == get_metadata(S.registry, name)
        old_level == meta[1].degradation_level
        new_level == old_level + 1
        event == [timestamp |-> now,
                  capability_name |-> name,
                  decay_type |-> DecayType(meta[1], new_level),
                  old_level |-> old_level,
                  new_level |-> new_level]
    IN  IF meta = None THEN [sys |-> S, event |-> None]
        ELSE IF meta[1].importance = ESSENTIAL THEN [sys |-> S, event |-> None]
        ELSE [sys |-> [S EXCEPT
                 !.registry = mark_degraded(DecayEffect(@, name, new_level),
                                            name, new_level),
                 !.engine.decay_history = Append(@, event),
                 !.engine.total_decays = @ + 1,
                 !.engine.last_decay_time = now],
              event |-> Some(event)]

\* apply_decay without the return for Essential capabilities
apply_decay_unprotected(S, name, now) ==
    LET meta == get_metadata(S.registry, name)
        old_level == meta[1].degradation_level
        new_level == old_level + 1
        event == [timestamp |-> now,
                  capability_name |-> name,
                  decay_type |-> DecayType(meta[1], new_level),
                  old_level |-> old_level,
                  new_level |-> new_level]
    IN  IF meta = None THEN [sys |-> S, event |-> None]
        ELSE IF new_level > 3 THEN [sys |-> S, event |-> None]
        ELSE [sys |-> [S EXCEPT
                 !.registry = mark_degraded(DecayEffect(@, name, new_level),
                                            name, new_level),
                 !.engine.decay_history = Append(@, event),
                 !.engine.total_decays = @ + 1,
                 !.engine.last_decay_time = now],
              event |-> Some(event)]

\* apply_decay recording the time of the attempt before it tests the level
apply_decay_stamping(S, name, now) ==
    LET meta == get_metadata(S.registry, name)
        old_level == meta[1].degradation_level
        new_level == old_level + 1
        event == [timestamp |-> now,
                  capability_name |-> name,
                  decay_type |-> DecayType(meta[1], new_level),
                  old_level |-> old_level,
                  new_level |-> new_level]
    IN  IF meta = None THEN [sys |-> S, event |-> None]
        ELSE IF meta[1].importance = ESSENTIAL THEN [sys |-> S, event |-> None]
        ELSE IF new_level > 3
        THEN [sys |-> [S EXCEPT !.engine.last_decay_time = now],
              event |-> None]
        ELSE [sys |-> [S EXCEPT
                 !.registry = mark_degraded(DecayEffect(@, name, new_level),
                                            name, new_level),
                 !.engine.decay_history = Append(@, event),
                 !.engine.total_decays = @ + 1,
                 !.engine.last_decay_time = now],
              event |-> Some(event)]

\* apply_decay also marking every capability that depends on name as
\* degraded
apply_decay_cascading(S, name, now) ==
    LET meta == get_metadata(S.registry, name)
        old_level == meta[1].degradation_level
        new_level == old_level + 1
        event == [timestamp |-> now,
                  capability_name |-> name,
                  decay_type |-> DecayType(meta[1], new_level),
                  old_level |-> old_level,
                  new_level |-> new_level]
    IN  IF meta = None THEN [sys |-> S, event |-> None]
        ELSE IF meta[1].importance = ESSENTIAL THEN [sys |-> S, event |-> None]
        ELSE IF new_level > 3 THEN [sys |-> S, event |-> None]
        ELSE [sys |-> [S EXCEPT
                 !.registry =
                     [mark_degraded(DecayEffect(@, name, new_level),
                                    name, new_level)
                        EXCEPT !.metadata =
                            [m \in DOMAIN @ |->
                                IF m \in get_dependents(S.registry, name)
                                THEN [@[m] EXCEPT !.is_degraded = TRUE]
                                ELSE @[m]]],
                 !.engine.decay_history = Append(@, event),
                 !.engine.total_decays = @ + 1,
                 !.engine.last_decay_time = now],
              event |-> Some(event)]

\* DecayEngine.apply_decay
apply_decay(S, name, now) ==
    LET meta == get_metadata(S.registry, name)
        old_level == meta[1].degradation_level
        new_level == old_level + 1
        event == [timestamp |-> now,
                  capability_name |-> name,
                  decay_type |-> DecayType(meta[1], new_level),
                  old_level |-> old_level,
                  new_level |-> new_level]
    IN  IF meta = None THEN [sys |-> S, event |-> None]
        ELSE IF meta[1].importance = ESSENTIAL THEN [sys |-> S, event |-> None]
        ELSE IF new_level > 3 THEN [sys |-> S, event |-> None]
        ELSE [sys |-> [S EXCEPT
                 !.registry = mark_degraded(DecayEffect(@, name, new_level),
                                            name, new_level),
                 !.engine.decay_history = Append(@, event),
                 !.engine.total_decays = @ + 1,
                 !.engine.last_decay_time = now],
              event |-> Some(event)]

\* DecayEngine.tick; d holds the draws the generator yields next
tick(S, now, d) ==
    LET sd == should_decay(S.engine, now, d[1])
        st == select_target(S.registry, d[sd.used + 1])
    IN  IF ~sd.result THEN [sys |-> S, event |-> None, used |-> sd.used]
        ELSE IF st.target = None
        THEN [sys |-> S, event |-> None, used |-> sd.used + st.used]
        ELSE [sys |-> apply_decay(S, st.target[1], now).sys,
              event |-> apply_decay(S, st.target[1], now).event,
              used |-> sd.used + st.used]

\* force_decay passing through the interval and probability gate of tick
force_decay_gated(S, name, now, d) ==
    LET st == IF name = None THEN select_target(S.registry, d[1])
              ELSE [target |-> name, used |-> 0]
    IN  IF ~should_decay(S.engine, now, d[1]).result
        THEN [sys |-> S, event |-> None, used |-> 0]
        ELSE IF st.target = None
        THEN [sys |-> S, event |-> None, used |-> st.used]
        ELSE [sys |-> apply_decay(S, st.target[1], now).sys,
              event |-> apply_decay(S, st.target[1], now).event,
              used |-> st.used]

\* DecayEngine.force_decay; name is None or Some(n)
force_decay(S, name, now, d) ==
    LET st == IF name = None THEN select_target(S.registry, d[1])
              ELSE [target |-> name, used |-> 0]
    IN  IF st.target = None THEN [sys |-> S, event |-> None, used |-> st.used]
        ELSE [sys |-> apply_decay(S, st.target[1], now).sys,
              event |-> apply_decay(S, st.target[1], now).event,
              used |-> st.used]

\* DecayEngine.enable
enable(S) == [S EXCEPT !.engine.is_enabled = TRUE]

\* DecayEngine.disable
disable(S) == [S EXCEPT !.engine.is_enabled = FALSE]

\* reset emptying the history without zeroing the count
reset_keeping_total(S, now) ==
    [S EXCEPT !.engine.decay_history = <<>>,
              !.engine.last_decay_time = now]

\* reset also forgetting which capabilities are degraded and deleted
reset_with_registry(S, now) ==
    [S EXCEPT !.engine.decay_history = <<>>,
              !.engine.total_decays = 0,
              !.engine.last_decay_time = now,
              !.registry.degraded_capabilities = <<>>,
              !.registry.deleted_capabilities = <<>>]

\* DecayEngine.reset
reset(S, now) ==
    [S EXCEPT !.engine.decay_history = <<>>,
              !.engine.total_decays = 0,
              !.engine.last_decay_time = now]

\* ============================================================= SafetyLayer
\* SafetyLayer.__init__; fallback is "none", "ok" or "raises"
NewSafety ==
    [is_active |-> TRUE,
     emergency_mode |-> FALSE,
     interventions |-> 0,
     fallback |-> "none"]

\* SafetyLayer.get_essential_capabilities
get_essential_capabilities(R) ==
    SelectSeq(list_capabilities(R),
              LAMBDA n : R.metadata[n].importance = ESSENTIAL)

\* _determine_status without the MIN_CAPABILITIES test
determine_status_no_floor(R, active_count_, essential_count) ==
    LET total == capability_count(R)
    IN  IF total = 0 THEN "emergency"
        ELSE IF essential_count = 0 THEN "emergency"
        ELSE IF active_count_ * 100 < THRESHOLD_CRITICAL * total
        THEN "critical"
        ELSE IF active_count_ * 100 < THRESHOLD_WARNING * total
        THEN "warning"
        ELSE IF active_count_ * 100 < THRESHOLD_CAUTION * total
        THEN "caution"
        ELSE "normal"

\* SafetyLayer._determine_status; health = (active_count / total) * 100
determine_status(R, active_count_, essential_count) ==
    LET total == capability_count(R)
    IN  IF total = 0 THEN "emergency"
        ELSE IF essential_count = 0 \/ active_count_ <= MIN_CAPABILITIES
        THEN "emergency"
        ELSE IF active_count_ * 100 < THRESHOLD_CRITICAL * total
        THEN "critical"
        ELSE IF active_count_ * 100 < THRESHOLD_WARNING * total
        THEN "warning"
        ELSE IF active_count_ * 100 < THRESHOLD_CAUTION * total
        THEN "caution"
        ELSE "normal"

\* the SafetyCheck that SafetyLayer.check builds
CheckOf(R, now) ==
    LET active == list_active_capabilities(R)
        active_essential == SelectSeq(get_essential_capabilities(R),
                                      LAMBDA e : InSeq(e, active))
        status == determine_status(R, Len(active), Len(active_essential))
    IN  [timestamp |-> now,
         status |-> status,
         active_count |-> Len(active),
         essential_count |-> Len(active_essential),
         intervention_needed |-> status \in {"critical", "emergency"}]

\* check registering the emergency heartbeat itself when nothing is active
check_repairing(S, now) ==
    [S EXCEPT !.safety.emergency_mode =
                  IF CheckOf(S.registry, now).status = "emergency"
                  THEN TRUE ELSE @,
              !.registry =
                  IF Len(list_active_capabilities(@)) = 0
                  THEN register_function(@, "function", HeartbeatName,
                                         ESSENTIAL, 10)
                  ELSE @]

\* SafetyLayer.check: the safety layer after the call
check(S, now) ==
    [S EXCEPT !.safety.emergency_mode =
                  IF CheckOf(S.registry, now).status = "emergency"
                  THEN TRUE ELSE @]

\* should_allow_decay testing the Essential tier before is_active
should_allow_decay_essential_first(S, capability_name, now) ==
    LET meta == get_metadata(S.registry, capability_name)
        active == list_active_capabilities(S.registry)
    IN  IF meta # None /\ meta[1].importance = ESSENTIAL
        THEN [result |-> FALSE, sys |-> S]
        ELSE IF ~S.safety.is_active THEN [result |-> TRUE, sys |-> S]
        ELSE IF Len(active) <= MIN_CAPABILITIES
        THEN [result |-> FALSE, sys |-> S]
        ELSE IF Len(active) <= 2 /\ InSeq(capability_name, active)
        THEN [result |-> CheckOf(S.registry, now).status
                             \notin {"critical", "emergency"},
              sys |-> check(S, now)]
        ELSE [result |-> TRUE, sys |-> S]

\* should_allow_decay without the test that the named capability is active
should_allow_decay_any_name(S, capability_name, now) ==
    LET meta == get_metadata(S.registry, capability_name)
        active == list_active_capabilities(S.registry)
    IN  IF ~S.safety.is_active THEN [result |-> TRUE, sys |-> S]
        ELSE IF meta # None /\ meta[1].importance = ESSENTIAL
        THEN [result |-> FALSE, sys |-> S]
        ELSE IF Len(active) <= MIN_CAPABILITIES
        THEN [result |-> FALSE, sys |-> S]
        ELSE IF Len(active) <= 2
        THEN [result |-> CheckOf(S.registry, now).status
                             \notin {"critical", "emergency"},
              sys |-> check(S, now)]
        ELSE [result |-> TRUE, sys |-> S]

\* SafetyLayer.should_allow_decay: the answer, and the system after the call
\* (the last branch runs check())
should_allow_decay(S, capability_name, now) ==
    LET meta == get_metadata(S.registry, capability_name)
        active == list_active_capabilities(S.registry)
    IN  IF ~S.safety.is_active THEN [result |-> TRUE, sys |-> S]
        ELSE IF meta # None /\ meta[1].importance = ESSENTIAL
        THEN [result |-> FALSE, sys |-> S]
        ELSE IF Len(active) <= MIN_CAPABILITIES
        THEN [result |-> FALSE, sys |-> S]
        ELSE IF Len(active) <= 2 /\ InSeq(capability_name, active)
        THEN [result |-> CheckOf(S.registry, now).status
                             \notin {"critical", "emergency"},
              sys |-> check(S, now)]
        ELSE [result |-> TRUE, sys |-> S]

\* activate also leaving the emergency mode
activate_clearing(S) ==
    [S EXCEPT !.safety.is_active = TRUE, !.safety.emergency_mode = FALSE]

\* SafetyLayer.activate
activate(S) == [S EXCEPT !.safety.is_active = TRUE]

\* SafetyLayer.deactivate
deactivate(S) == [S EXCEPT !.safety.is_active = FALSE]

\* SafetyLayer.set_fallback
set_fallback(S, func) == [S EXCEPT !.safety.fallback = func]

\* the test `if self._fallback_function:` of intervene: false for None and
\* for a callable that is false in a boolean context
TruthyFallback(fallback) == fallback \notin {"none", "falsy"}

\* SafetyLayer.intervene: the answer, the system after the call and the
\* number of calls of the fallback; the fallback is "none", "ok", "raises"
\* (it raises an Exception) or "falsy" (a callable that is false in a boolean
\* context and returns normally)
intervene(S, now) ==
    IF ~S.safety.is_active
    THEN [result |-> FALSE, sys |-> S, invoked |-> 0]
    ELSE [result |-> ~(/\ CheckOf(S.registry, now).status = "emergency"
                       /\ TruthyFallback(S.safety.fallback)
                       /\ S.safety.fallback = "raises"),
          sys |-> check([S EXCEPT !.safety.interventions = @ + 1], now),
          invoked |-> IF /\ CheckOf(S.registry, now).status = "emergency"
                         /\ TruthyFallback(S.safety.fallback)
                      THEN 1 ELSE 0]

\* SafetyLayer.get_status: the system after the call (it runs check())
get_status(S, now) == check(S, now)

\* SafetyLayer.ensure_minimum_capability
ensure_minimum_capability(S) ==
    IF Len(list_active_capabilities(S.registry)) = 0
    THEN [S EXCEPT !.registry =
              register_function(@, "function", HeartbeatName, ESSENTIAL, 10)]
    ELSE S

\* ============================================================ Introspector
\* Introspector.__init__
NewIntrospector ==
    [known_capabilities |-> {},
     initial_capability_count |-> 0,
     lost_capabilities |-> {}]

\* Introspector.initialize
introspector_initialize(S) ==
    LET known == {list_capabilities(S.registry)[i] :
                     i \in 1..Len(list_capabilities(S.registry))}
    IN  [S EXCEPT !.introspector.known_capabilities = known,
                  !.introspector.initial_capability_count = Cardinality(known)]

\* Contribution with the stub counted like the approximation
Contribution_flat(degradation_level) ==
    CASE degradation_level = 0 -> 10
      [] degradation_level = 1 -> 7
      [] degradation_level = 2 -> 7
      [] OTHER -> 0

\* the share of its weight a capability contributes to the health, in
\* tenths: all of it at level 0, 0.7 at level 1, 0.3 at level 2, nothing
\* above
Contribution(degradation_level) ==
    CASE degradation_level = 0 -> 10
      [] degradation_level = 1 -> 7
      [] degradation_level = 2 -> 3
      [] OTHER -> 0

\* the sum of f[n] over the names n of a set
RECURSIVE SumOver(_, _)
SumOver(names, f) ==
    IF names = {} THEN 0
    ELSE LET n == CHOOSE x \in names : TRUE
         IN  f[n] + SumOver(names \ {n}, f)

\* a health value is a fraction <<numerator, denominator>> of percents
Percent(x) == <<x, 1>>

\* Introspector._calculate_health: 100 * current_weight / total_weight over
\* the known capabilities that have metadata, weights in tenths
calculate_health(S) ==
    LET weighted == S.introspector.known_capabilities
                        \cap DOMAIN S.registry.metadata
        total_weight ==
            SumOver(weighted,
                    [n \in weighted |-> 10 * S.registry.metadata[n].importance])
        current_weight ==
            SumOver(weighted,
                    [n \in weighted |->
                        S.registry.metadata[n].importance
                          * Contribution(
                                S.registry.metadata[n].degradation_level)])
    IN  IF S.introspector.initial_capability_count = 0 THEN Percent(100)
        ELSE IF total_weight = 0 THEN Percent(100)
        ELSE <<100 * current_weight, total_weight>>

\* the health_percentage of the SystemState that Introspector._capture_state
\* builds, which is what get_current_state() returns
capture_health(S) ==
    IF capability_count(S.registry) > 0 THEN calculate_health(S)
    ELSE Percent(0)

\* Introspector.update_lost_capabilities; the losses are kept as a set of
\* names (they are appended in the iteration order of a Python set)
update_lost_capabilities(S) ==
    [S EXCEPT !.introspector.lost_capabilities =
        @ \cup {n \in DOMAIN S.registry.metadata :
                   InSeq(n, S.registry.deleted_capabilities)}]

\* =================================================================== Lethe
\* Lethe.__init__
NewLethe ==
    [state |-> "initializing",
     iteration_count |-> 0,
     running |-> FALSE]

\* the objects of one Lethe instance
NewSystem(decay_interval, decay_probability, now) ==
    [registry |-> NewRegistry,
     engine |-> NewEngine(decay_interval, decay_probability, now),
     safety |-> NewSafety,
     introspector |-> NewIntrospector,
     lethe |-> NewLethe]

\* calling the implementation stored for name: the wrapper installed by
\* register_function counts the call, the replacements installed by
\* apply_decay do not
call_capability(R, name) ==
    IF R.capabilities[name] = "original" /\ name \in DOMAIN R.metadata
    THEN [R EXCEPT !.metadata[name].execution_count = @ + 1]
    ELSE R

\* DecayEngine.create_stub: what the stub built for return_type returns when
\* called; return_type is None or Some of a Python type's name, the values
\* other than text are written as Python writes them
create_stub(return_type) ==
    CASE return_type = None -> None
      [] return_type = Some("int") -> Some("0")
      [] return_type = Some("float") -> Some("0.0")
      [] return_type = Some("str") -> Some("")
      [] return_type = Some("list") -> Some("[]")
      [] return_type = Some("dict") -> Some("{}")
      [] return_type = Some("bool") -> Some("False")
      [] OTHER -> None

\* what calling the implementation stored for name returns: the value of the
\* registered function, a possibly perturbed copy of it from the
\* approximation, Python's None from the stub (create_stub is called without
\* a return_type)
ReturnOf(R, name) ==
    CASE R.capabilities[name] = "original" -> Some("value")
      [] R.capabilities[name] = "approximated" -> Some("approximate value")
      [] R.capabilities[name] = "stub" -> create_stub(None)
      [] OTHER -> None

\* CapabilityRegistry.execute: the registry after the call, the exception
\* raised if any, the value returned and the implementation invoked
execute(R, name) ==
    IF InSeq(name, R.deleted_capabilities)
    THEN [registry |-> R, raises |-> None, result |-> None, invoked |-> None]
    ELSE IF name \notin DOMAIN R.capabilities
    THEN [registry |-> R, raises |-> Some("KeyError"), result |-> None,
          invoked |-> None]
    ELSE [registry |-> call_capability(R, name), raises |-> None,
          result |-> ReturnOf(R, name),
          invoked |-> Some(R.capabilities[name])]

\* Lethe._execute_capabilities over active[i..]
RECURSIVE ExecuteFrom(_, _, _)
ExecuteFrom(R, active, i) ==
    IF i > Len(active) THEN R
    ELSE ExecuteFrom(IF get(R, active[i]) # None
                     THEN call_capability(R, active[i]) ELSE R,
                     active, i + 1)

\* Lethe._execute_capabilities
execute_capabilities(S) ==
    [S EXCEPT !.registry = ExecuteFrom(@, list_active_capabilities(@), 1)]

\* Lethe.initialize
initialize(S) ==
    [ensure_minimum_capability(introspector_initialize(S))
        EXCEPT !.safety.fallback = "ok", !.lethe.state = "running"]

\* Lethe._perform_decay
perform_decay(S, now, d) ==
    LET st == select_target(S.registry, d[1])
        sa == IF st.target # None /\ TruthyName(st.target[1])
              THEN should_allow_decay(S, st.target[1], now)
              ELSE [result |-> TRUE, sys |-> S]
        t  == tick(sa.sys, now, SubSeq(d, st.used + 1, Len(d)))
    IN  IF ~sa.result
        THEN [sys |-> sa.sys, event |-> None, used |-> st.used]
        ELSE IF t.event # None
        THEN [sys |-> update_lost_capabilities(
                          [t.sys EXCEPT !.lethe.state = "degrading"]),
              event |-> t.event, used |-> st.used + t.used]
        ELSE [sys |-> t.sys, event |-> None, used |-> st.used + t.used]

\* Lethe._check_safety
check_safety(S, now) ==
    IF CheckOf(S.registry, now).intervention_needed
    THEN intervene([check(S, now) EXCEPT !.lethe.state = "critical"], now).sys
    ELSE check(S, now)

\* Lethe.tick
lethe_tick(S, now, d) ==
    [perform_decay(
         execute_capabilities([S EXCEPT !.lethe.iteration_count = @ + 1]),
         now, d)
        EXCEPT !.sys = check_safety(@, now)]

\* calling the implementation stored for name raises an Exception: the
\* registered function does ("raising"), and so do the counting wrapper and
\* the approximation, which call it; the stub calls nothing
Raises(R, name) ==
    /\ name \in DOMAIN R.metadata
    /\ R.metadata[name].original_function = "raising"
    /\ R.capabilities[name] \in {"original", "approximated"}

\* safe_wrapper letting the Exception of the implementation through
wrap_with_safety_rethrow(R, name) ==
    [registry |-> call_capability(R, name),
     raises |-> IF Raises(R, name) THEN Some("Exception") ELSE None,
     result |-> IF Raises(R, name) THEN None ELSE ReturnOf(R, name)]

\* SafetyLayer.wrap_with_safety: one call of the safe_wrapper built for the
\* implementation stored for name; an Exception becomes the result None
wrap_with_safety(R, name) ==
    [registry |-> call_capability(R, name),
     raises |-> None,
     result |-> IF Raises(R, name) THEN None ELSE ReturnOf(R, name)]

\* the loop of Lethe._execute_capabilities over active[i..]: the registry
\* after it and the count of executed capabilities; an Exception that
\* leaves the wrapped call is caught by the loop's own handler before the
\* count is incremented
RECURSIVE ExecuteCounting(_, _, _, _)
ExecuteCounting(R, active, i, executed) ==
    IF i > Len(active) THEN [registry |-> R, executed |-> executed]
    ELSE IF get(R, active[i]) = None
    THEN ExecuteCounting(R, active, i + 1, executed)
    ELSE ExecuteCounting(wrap_with_safety(R, active[i]).registry, active,
                         i + 1,
                         IF wrap_with_safety(R, active[i]).raises = None
                         THEN executed + 1 ELSE executed)

\* the LoopIteration that Lethe.tick returns
tick_iteration(S, now, d) ==
    LET r == lethe_tick(S, now, d)
    IN  [iteration |-> S.lethe.iteration_count + 1,
         timestamp |-> now,
         decay_event |-> r.event,
         capabilities_executed |->
             ExecuteCounting(S.registry, list_active_capabilities(S.registry),
                             1, 0).executed,
         health |-> capture_health(r.sys)]

\* Lethe.force_decay; name is None or Some(n)
lethe_force_decay(S, name, now, d) ==
    LET sa == IF name # None /\ TruthyName(name[1])
              THEN should_allow_decay(S, name[1], now)
              ELSE [result |-> TRUE, sys |-> S]
    IN  IF ~sa.result THEN [sys |-> sa.sys, event |-> None, used |-> 0]
        ELSE force_decay(sa.sys, name, now, d)

\* Lethe.pause
pause(S) ==
    [S EXCEPT !.engine.is_enabled = FALSE, !.lethe.state = "paused"]

\* Lethe.resume
resume(S) ==
    [S EXCEPT !.engine.is_enabled = TRUE, !.lethe.state = "running"]

\* ================================================================= actions
Sys ==
    [registry |-> registry, engine |-> engine, safety |-> safety,
     introspector |-> introspector, lethe |-> lethe]

SetSys(S) ==
    /\ registry' = S.registry
    /\ engine' = S.engine
    /\ safety' = S.safety
    /\ introspector' = S.introspector
    /\ lethe' = S.lethe

NameArgs == {None} \cup {Some(n) : n \in AllNames}

\* the next k values of the engine's generator
DrawSeqs(k) == [1..k -> Draws]

InitSys(S) ==
    /\ registry = S.registry
    /\ engine = S.engine
    /\ safety = S.safety
    /\ introspector = S.introspector
    /\ lethe = S.lethe

\* a single Lethe instance: no second instance, no recorded stream
NoTwin == <<>>
\* no call of Lethe.run is in progress: pc is the position in run,
\* max_iterations its argument, performed the iterations of its loop so far,
\* stop_requested whether a stop request has arrived since it was entered
NoFrame ==
    [pc |-> "idle", max_iterations |-> None, performed |-> 0,
     stop_requested |-> FALSE]
\* no apply_decay call is in progress
NoCalls == <<>>
Alone == UNCHANGED <<twin, gens, stream, frame, calls>>
InitAlone ==
    /\ twin = NoTwin
    /\ gens = <<0, 0>>
    /\ stream = <<>>
    /\ frame = NoFrame
    /\ calls = NoCalls

Init ==
    /\ \E iv \in InputInterval, p \in InputProbability :
          InitSys(NewSystem(iv, p, 0))
    /\ clock = 0
    /\ InitAlone

\* names are registered in the order of UserOrder, each once
UserOrder == <<"a", "b", "c">>
NextName(R) ==
    IF Len(R.order) < Len(UserOrder) THEN UserOrder[Len(R.order) + 1]
    ELSE HeartbeatName

\* the clock advances between calls
AdvanceClock ==
    /\ clock < MaxClock
    /\ clock' = clock + 1
    /\ UNCHANGED <<registry, engine, safety, introspector, lethe,
                   twin, gens, stream, frame, calls>>

\* lethe.register_function(func, name, importance, degradation_resistance)
Register ==
    \E f \in InputFunction, n \in UserNames, imp \in InputImportance,
       res \in InputResistance :
        /\ lethe.state = "initializing"
        /\ n = NextName(registry)
        /\ SetSys([Sys EXCEPT
                     !.registry = register_function(@, f, n, imp, res)])
        /\ UNCHANGED clock
        /\ Alone

\* lethe.initialize()
Initialize ==
    /\ lethe.state = "initializing"
    /\ SetSys(initialize(Sys))
    /\ UNCHANGED clock
    /\ Alone

\* lethe.tick()
LetheTick ==
    /\ lethe.state # "initializing"
    /\ lethe.iteration_count < MaxIterations
    /\ Len(engine.decay_history) < MaxHistory
    /\ \E d \in DrawSeqs(3) : SetSys(lethe_tick(Sys, clock, d).sys)
    /\ UNCHANGED clock
    /\ Alone

\* lethe.force_decay(name)
LetheForceDecay ==
    /\ lethe.state # "initializing"
    /\ Len(engine.decay_history) < MaxHistory
    /\ \E name \in NameArgs, d \in DrawSeqs(1) :
          SetSys(lethe_force_decay(Sys, name, clock, d).sys)
    /\ UNCHANGED clock
    /\ Alone

\* lethe.decay_engine.tick()
EngineTick ==
    /\ lethe.state # "initializing"
    /\ Len(engine.decay_history) < MaxHistory
    /\ \E d \in DrawSeqs(2) : SetSys(tick(Sys, clock, d).sys)
    /\ UNCHANGED clock
    /\ Alone

\* lethe.decay_engine.force_decay(name)
EngineForceDecay ==
    /\ lethe.state # "initializing"
    /\ Len(engine.decay_history) < MaxHistory
    /\ \E name \in NameArgs, d \in DrawSeqs(1) :
          SetSys(force_decay(Sys, name, clock, d).sys)
    /\ UNCHANGED clock
    /\ Alone

\* lethe.decay_engine.apply_decay(name)
ApplyDecay ==
    /\ lethe.state # "initializing"
    /\ Len(engine.decay_history) < MaxHistory
    /\ \E n \in AllNames : SetSys(apply_decay(Sys, n, clock).sys)
    /\ UNCHANGED clock
    /\ Alone

\* lethe.safety.check()
SafetyCheck ==
    /\ lethe.state # "initializing"
    /\ SetSys(check(Sys, clock))
    /\ UNCHANGED clock
    /\ Alone

\* lethe.safety.deactivate()
Deactivate ==
    /\ lethe.state # "initializing"
    /\ SetSys([Sys EXCEPT !.safety.is_active = FALSE])
    /\ UNCHANGED clock
    /\ Alone

\* lethe.safety.activate()
Activate ==
    /\ lethe.state # "initializing"
    /\ SetSys([Sys EXCEPT !.safety.is_active = TRUE])
    /\ UNCHANGED clock
    /\ Alone

Next ==
    \/ AdvanceClock
    \/ Register
    \/ Initialize
    \/ LetheTick
    \/ LetheForceDecay
    \/ EngineTick
    \/ EngineForceDecay
    \/ ApplyDecay
    \/ SafetyCheck
    \/ Deactivate
    \/ Activate

Spec == Init /\ [][Next]_vars

\* ------------------------------------------------------------- SpecApi
\* The registry and the engine called directly, as the unit tests call them:
\* any name may be registered at any time, registered or not.

\* registry.register_function(func, name, importance, degradation_resistance)
ApiRegister ==
    \E f \in ApiFunction, n \in UserNames, imp \in InputImportance,
       res \in InputResistance :
        /\ SetSys([Sys EXCEPT
                     !.registry = register_function(@, f, n, imp, res)])
        /\ UNCHANGED clock
        /\ Alone

\* engine.apply_decay(name)
ApiApplyDecay ==
    /\ Len(engine.decay_history) < MaxHistory
    /\ \E n \in AllNames : SetSys(apply_decay(Sys, n, clock).sys)
    /\ UNCHANGED clock
    /\ Alone

NextApi ==
    \/ ApiRegister
    \/ ApiApplyDecay

SpecApi == Init /\ [][NextApi]_vars

\* ---------------------------------------------------------- SpecStatus
\* A SafetyLayer over a registry of total capabilities, the first essential
\* of them Essential, the first degraded of the others decayed once.
StatusNames ==
    <<"s1", "s2", "s3", "s4", "s5", "s6", "s7", "s8", "s9", "s10", "s11",
      "s12", "s13", "s14", "s15", "s16", "s17", "s18", "s19", "s20", "s21",
      "s22">>

RECURSIVE RegisterFirst(_, _, _)
RegisterFirst(S, total, essential) ==
    IF total = 0 THEN S
    ELSE [RegisterFirst(S, total - 1, essential) EXCEPT
            !.registry = register_function(@, "function", StatusNames[total],
                IF total <= essential THEN ESSENTIAL ELSE TRIVIAL, 5)]

RECURSIVE DecayFirst(_, _, _)
DecayFirst(S, essential, degraded) ==
    IF degraded = 0 THEN S
    ELSE apply_decay(DecayFirst(S, essential, degraded - 1),
                     StatusNames[essential + degraded], 0).sys

InitStatus ==
    /\ \E total \in 0..MaxTotal :
       \E essential \in 0..total :
       \E degraded \in 0..(total - essential) :
          InitSys(DecayFirst(
              RegisterFirst(NewSystem(1, 40, 0), total, essential),
              essential, degraded))
    /\ clock = 0
    /\ InitAlone

\* safety.check()
StatusCheck ==
    /\ SetSys(check(Sys, clock))
    /\ UNCHANGED clock
    /\ Alone

\* registry.register_function of one more Trivial capability; two active
\* capabilities are less than 10 percent from 21 capabilities on
StatusRegister ==
    /\ capability_count(registry) < MaxCrowd
    /\ SetSys([Sys EXCEPT !.registry =
                  register_function(@, "function",
                                    StatusNames[capability_count(@) + 1],
                                    TRIVIAL, 5)])
    /\ UNCHANGED clock
    /\ Alone

\* engine.apply_decay on the first active capability that is not Essential
StatusDecay ==
    /\ \E cand \in {SelectSeq(list_active_capabilities(registry),
                    LAMBDA n : registry.metadata[n].importance # ESSENTIAL)} :
          /\ cand # <<>>
          /\ SetSys(apply_decay(Sys, cand[1], clock).sys)
    /\ UNCHANGED clock
    /\ Alone

NextStatus ==
    \/ StatusCheck
    \/ StatusRegister
    \/ StatusDecay

SpecStatus == InitStatus /\ [][NextStatus]_vars

\* -------------------------------------------------------- SpecRegistry
\* The public operations of a CapabilityRegistry, with a DecayEngine and a
\* SafetyLayer built over it, called in any order with any name.
RegNames == {"a"}
CallNames == RegNames \cup {HeartbeatName}

\* the level argument of mark_degraded
InputLevel == {1, 2, 3}

\* registry.register_function(func, name, importance, degradation_resistance)
RegRegister ==
    \E f \in InputFunction, n \in RegNames, imp \in InputImportance,
       res \in InputResistance :
        /\ SetSys([Sys EXCEPT
                     !.registry = register_function(@, f, n, imp, res)])
        /\ UNCHANGED clock
        /\ Alone

\* registry.execute(name); a KeyError leaves the registry as it was
RegExecute ==
    \E n \in CallNames :
        /\ n \in DOMAIN registry.metadata
               => registry.metadata[n].execution_count < MaxExecutions
        /\ SetSys([Sys EXCEPT !.registry = execute(@, n).registry])
        /\ UNCHANGED clock
        /\ Alone

\* registry.mark_degraded(name, level)
RegMarkDegraded ==
    \E n \in CallNames, level \in InputLevel :
        /\ SetSys([Sys EXCEPT !.registry = mark_degraded(@, n, level)])
        /\ UNCHANGED clock
        /\ Alone

\* registry.mark_deleted(name)
RegMarkDeleted ==
    \E n \in CallNames :
        /\ SetSys([Sys EXCEPT !.registry = mark_deleted(@, n)])
        /\ UNCHANGED clock
        /\ Alone

\* engine.apply_decay(name)
RegApplyDecay ==
    /\ Len(engine.decay_history) < MaxHistory
    /\ \E n \in CallNames : SetSys(apply_decay(Sys, n, clock).sys)
    /\ UNCHANGED clock
    /\ Alone

\* safety.ensure_minimum_capability()
RegEnsureMinimum ==
    /\ SetSys(ensure_minimum_capability(Sys))
    /\ UNCHANGED clock
    /\ Alone

NextRegistry ==
    \/ RegRegister
    \/ RegExecute
    \/ RegMarkDegraded
    \/ RegMarkDeleted
    \/ RegApplyDecay
    \/ RegEnsureMinimum

SpecRegistry == Init /\ [][NextRegistry]_vars

\* ---------------------------------------------------------- SpecHealth
\* An Introspector over a registry: capabilities are registered, each name
\* once, the introspector is initialized, and the engine decays them.
HealthNames == {"a", "b"}
HealthImportance == {TRIVIAL, HIGH, ESSENTIAL}

\* registry.register_function(func, name, importance, degradation_resistance)
HealthRegister ==
    \E f \in InputFunction, n \in HealthNames, imp \in HealthImportance,
       res \in InputResistance :
        /\ n \notin DOMAIN registry.capabilities
        /\ SetSys([Sys EXCEPT
                     !.registry = register_function(@, f, n, imp, res)])
        /\ UNCHANGED clock
        /\ Alone

\* introspector.initialize()
HealthInitialize ==
    /\ SetSys(introspector_initialize(Sys))
    /\ UNCHANGED clock
    /\ Alone

\* engine.apply_decay(name)
HealthApplyDecay ==
    /\ \E n \in HealthNames : SetSys(apply_decay(Sys, n, clock).sys)
    /\ UNCHANGED clock
    /\ Alone

NextHealth ==
    \/ HealthRegister
    \/ HealthInitialize
    \/ HealthApplyDecay

SpecHealth == Init /\ [][NextHealth]_vars

\* ---------------------------------------------------------- SpecEngine
\* A DecayEngine built at time 0 over a registry of up to two capabilities,
\* the first of them Essential or not; its operations are called in any
\* order while the clock advances.
EngineInterval == {1, 2}
EngineNames == {"s1", "s2", Unregistered}
EngineNameArgs == {None} \cup {Some(n) : n \in EngineNames}

\* the second capability registered as depending on the first, or on nothing
EngineDependencies == {<<>>, <<"s1">>}

\* RegisterFirst with the last registration naming its dependencies
RegisterDepending(S, total, essential, dependencies) ==
    IF total < 2 THEN RegisterFirst(S, total, essential)
    ELSE [RegisterFirst(S, total - 1, essential) EXCEPT
            !.registry = register_with_dependencies(
                             @, "function", StatusNames[total], TRIVIAL, 5,
                             dependencies)]

InitEngine ==
    /\ \E iv \in EngineInterval, p \in InputProbability :
       \E total \in 0..2 :
       \E essential \in 0..Min(1, total) :
       \E dependencies \in EngineDependencies :
          InitSys(RegisterDepending(NewSystem(iv, p, 0), total, essential,
                                    dependencies))
    /\ clock = 0
    /\ InitAlone

\* time passes between two calls
EngAdvanceClock ==
    /\ clock < MaxEngineClock
    /\ clock' = clock + 1
    /\ UNCHANGED <<registry, engine, safety, introspector, lethe,
                   twin, gens, stream, frame, calls>>

\* engine.tick()
EngTick ==
    /\ \E d \in DrawSeqs(2) : SetSys(tick(Sys, clock, d).sys)
    /\ UNCHANGED clock
    /\ Alone

\* engine.force_decay(name)
EngForceDecay ==
    /\ \E name \in EngineNameArgs, d \in DrawSeqs(1) :
          SetSys(force_decay(Sys, name, clock, d).sys)
    /\ UNCHANGED clock
    /\ Alone

\* engine.apply_decay(name)
EngApplyDecay ==
    /\ \E n \in EngineNames : SetSys(apply_decay(Sys, n, clock).sys)
    /\ UNCHANGED clock
    /\ Alone

\* engine.enable()
EngEnable ==
    /\ SetSys(enable(Sys))
    /\ UNCHANGED clock
    /\ Alone

\* engine.disable()
EngDisable ==
    /\ SetSys(disable(Sys))
    /\ UNCHANGED clock
    /\ Alone

\* engine.reset()
EngReset ==
    /\ SetSys(reset(Sys, clock))
    /\ UNCHANGED clock
    /\ Alone

NextEngine ==
    \/ EngAdvanceClock
    \/ EngTick
    \/ EngForceDecay
    \/ EngApplyDecay
    \/ EngEnable
    \/ EngDisable
    \/ EngReset

SpecEngine == InitEngine /\ [][NextEngine]_vars

\* ---------------------------------------------------------- SpecSafety
\* A SafetyLayer over a registry of up to three capabilities, the first of
\* them Essential or not: fallbacks are registered, the layer is switched
\* off and on, capabilities decay and intervene() is called, in any order.
FallbackInput == {"ok", "raises", "falsy"}

InitSafety ==
    /\ \E total \in 0..3 :
       \E essential \in 0..Min(1, total) :
          InitSys(RegisterFirst(NewSystem(1, 40, 0), total, essential))
    /\ clock = 0
    /\ InitAlone

\* safety.set_fallback(func)
SafSetFallback ==
    /\ \E f \in FallbackInput : SetSys(set_fallback(Sys, f))
    /\ UNCHANGED clock
    /\ Alone

\* safety.intervene()
SafIntervene ==
    /\ safety.interventions < MaxInterventions
    /\ SetSys(intervene(Sys, clock).sys)
    /\ UNCHANGED clock
    /\ Alone

\* safety.activate()
SafActivate ==
    /\ SetSys(activate(Sys))
    /\ UNCHANGED clock
    /\ Alone

\* safety.deactivate()
SafDeactivate ==
    /\ SetSys(deactivate(Sys))
    /\ UNCHANGED clock
    /\ Alone

\* engine.apply_decay(name)
SafApplyDecay ==
    /\ \E n \in DOMAIN registry.metadata :
          SetSys(apply_decay(Sys, n, clock).sys)
    /\ UNCHANGED clock
    /\ Alone

\* safety.check()
SafCheck ==
    /\ SetSys(check(Sys, clock))
    /\ UNCHANGED clock
    /\ Alone

\* safety.should_allow_decay(capability_name)
SafShouldAllowDecay ==
    /\ \E n \in DOMAIN registry.metadata \cup {Unregistered} :
          SetSys(should_allow_decay(Sys, n, clock).sys)
    /\ UNCHANGED clock
    /\ Alone

\* registry.register_function(func, name, importance, resistance) for the
\* next name not yet registered
SafRegister ==
    /\ capability_count(registry) < 3
    /\ SetSys([Sys EXCEPT
                 !.registry = register_function(
                                  @, "function",
                                  StatusNames[capability_count(@) + 1],
                                  TRIVIAL, 5)])
    /\ UNCHANGED clock
    /\ Alone

NextSafety ==
    \/ SafSetFallback
    \/ SafIntervene
    \/ SafActivate
    \/ SafDeactivate
    \/ SafApplyDecay
    \/ SafCheck
    \/ SafShouldAllowDecay
    \/ SafRegister

SpecSafety == InitSafety /\ [][NextSafety]_vars

\* ------------------------------------------------------------- SpecRun
\* An initialized Lethe over up to three user capabilities, each returning
\* normally or raising: run(max_iterations) is called and proceeds statement
\* by statement while stop requests (Lethe.stop() from another thread, or
\* the handler of SIGINT and SIGTERM) arrive at any point; tick() is also
\* called directly while no run is in progress.
RunFunction == {"function", "raising"}
RunLimit == {None} \cup {Some(n) : n \in 0..MaxLimit}
NoPair == UNCHANGED <<twin, gens, stream, calls>>

InitRun ==
    /\ \E total \in 0..3 :
       \E f \in [1..total -> RunFunction] :
       \E S0 \in {NewSystem(1, 40, 0)} :
       \E S1 \in {IF total >= 1
                  THEN [S0 EXCEPT !.registry =
                           register_function(@, f[1], "a", TRIVIAL, 5)]
                  ELSE S0} :
       \E S2 \in {IF total >= 2
                  THEN [S1 EXCEPT !.registry =
                           register_function(@, f[2], "b", TRIVIAL, 5)]
                  ELSE S1} :
       \E S3 \in {IF total >= 3
                  THEN [S2 EXCEPT !.registry =
                           register_function(@, f[3], "c", TRIVIAL, 5)]
                  ELSE S2} :
          InitSys(initialize(S3))
    /\ clock = 0
    /\ InitAlone

\* the test `if max_iterations and iteration.iteration >= max_iterations`
\* of run: max_iterations is None or Some(n), and 0 is false
LimitReached(max_iterations, iteration) ==
    /\ max_iterations # None
    /\ max_iterations[1] # 0
    /\ iteration >= max_iterations[1]

\* lethe.run(max_iterations) is called: the frame is entered
RunCall ==
    /\ frame.pc \in {"idle", "returned"}
    /\ \E limit \in RunLimit :
          frame' = [pc |-> "entered", max_iterations |-> limit,
                    performed |-> 0, stop_requested |-> FALSE]
    /\ UNCHANGED <<registry, engine, safety, introspector, lethe, clock>>
    /\ NoPair

\* self._running = True, the first statement of run
RunStart ==
    /\ frame.pc = "entered"
    /\ lethe' = [lethe EXCEPT !.running = TRUE]
    /\ frame' = [frame EXCEPT !.pc = "test"]
    /\ UNCHANGED <<registry, engine, safety, introspector, clock>>
    /\ NoPair

\* while self._running
RunTest ==
    /\ frame.pc = "test"
    /\ frame' = [frame EXCEPT
                   !.pc = IF lethe.running THEN "tick" ELSE "finally"]
    /\ UNCHANGED <<registry, engine, safety, introspector, lethe, clock>>
    /\ NoPair

\* iteration = self.tick() and the test of the limit after it
RunTick ==
    /\ frame.pc = "tick"
    /\ lethe.iteration_count < MaxRunIterations
    /\ \E d \in DrawSeqs(3) :
       \E r \in {lethe_tick(Sys, clock, d)} :
          /\ SetSys(r.sys)
          /\ frame' = [frame EXCEPT
                         !.performed = @ + 1,
                         !.pc = IF LimitReached(frame.max_iterations,
                                                r.sys.lethe.iteration_count)
                                THEN "finally" ELSE "sleep"]
    /\ UNCHANGED clock
    /\ NoPair

\* time.sleep(self._loop_interval)
RunSleep ==
    /\ frame.pc = "sleep"
    /\ clock' = clock + 1
    /\ frame' = [frame EXCEPT !.pc = "test"]
    /\ UNCHANGED <<registry, engine, safety, introspector, lethe>>
    /\ NoPair

\* the finally clause of run, and the return
RunFinally ==
    /\ frame.pc = "finally"
    /\ lethe' = [lethe EXCEPT !.running = FALSE, !.state = "stopped"]
    /\ frame' = [frame EXCEPT !.pc = "returned"]
    /\ UNCHANGED <<registry, engine, safety, introspector, clock>>
    /\ NoPair

\* Lethe.stop(), or the handler installed by _setup_signals, at any point
RunStop ==
    /\ lethe' = [lethe EXCEPT !.running = FALSE]
    /\ frame' = [frame EXCEPT
                   !.stop_requested =
                       @ \/ frame.pc \notin {"idle", "returned"}]
    /\ UNCHANGED <<registry, engine, safety, introspector, clock>>
    /\ NoPair

\* lethe.tick() called directly, no run being in progress
RunDirectTick ==
    /\ frame.pc \in {"idle", "returned"}
    /\ lethe.iteration_count < MaxRunIterations
    /\ \E d \in DrawSeqs(3) : SetSys(lethe_tick(Sys, clock, d).sys)
    /\ UNCHANGED <<clock, frame>>
    /\ NoPair

NextRun ==
    \/ RunCall
    \/ RunStart
    \/ RunTest
    \/ RunTick
    \/ RunSleep
    \/ RunFinally
    \/ RunStop
    \/ RunDirectTick

SpecRun == InitRun /\ [][NextRun]_vars

\* ------------------------------------------------------------ SpecPair
\* Two Lethe instances built with the same seed, given the same
\* registrations and ticked at the same clock readings.  stream holds the
\* values random.Random(seed) yields, as far as a generator has read them;
\* gens[g] is the number of values generator g has yielded.
MaxPairTicks == 2
PairInterval == {0, 1}

\* values of random.Random.random(): 0 passes should_decay and selects the
\* first candidate, 999 fails should_decay and selects the last candidate
PairDraws == {0, 999}

\* the generator the engine of a run draws from: DecayEngine.__init__ builds
\* one of its own, so both runs would draw from generator 1 only if the
\* generator were shared
RngOf_shared(run) == 1

\* the generator the engine of a run draws from: its own
RngOf(run) == run

InitPair ==
    /\ \E iv \in PairInterval, p \in InputProbability :
          /\ InitSys(NewSystem(iv, p, 0))
          /\ twin = NewSystem(iv, p, 0)
    /\ clock = 0
    /\ gens = <<0, 0>>
    /\ stream = <<>>
    /\ frame = NoFrame
    /\ calls = NoCalls

\* the same register_function call on both instances
PairRegister ==
    \E f \in InputFunction, n \in UserNames, imp \in InputImportance,
       res \in InputResistance :
        /\ lethe.state = "initializing"
        /\ n = NextName(registry)
        /\ SetSys([Sys EXCEPT
                     !.registry = register_function(@, f, n, imp, res)])
        /\ twin' = [twin EXCEPT
                      !.registry = register_function(@, f, n, imp, res)]
        /\ UNCHANGED <<clock, gens, stream, frame, calls>>

\* initialize() on both instances
PairInitialize ==
    /\ lethe.state = "initializing"
    /\ SetSys(initialize(Sys))
    /\ twin' = initialize(twin)
    /\ UNCHANGED <<clock, gens, stream, frame, calls>>

\* the next three values a generator that has yielded g values yields, e
\* being the values that follow the part of the stream already read
NextDraws(g, e) == SubSeq(stream \o e, g + 1, g + 3)

\* tick() on both instances at the same clock reading; each engine reads its
\* draws from its generator and advances it by the draws it used
PairTick ==
    /\ lethe.state # "initializing"
    /\ lethe.iteration_count < MaxPairTicks
    /\ \E e \in [1..6 -> PairDraws] :
       \E r1 \in {lethe_tick(Sys, clock, NextDraws(gens[RngOf(1)], e))} :
       \E g1 \in {[gens EXCEPT ![RngOf(1)] = @ + r1.used]} :
       \E r2 \in {lethe_tick(twin, clock, NextDraws(g1[RngOf(2)], e))} :
       \E g2 \in {[g1 EXCEPT ![RngOf(2)] = @ + r2.used]} :
          /\ SetSys(r1.sys)
          /\ twin' = r2.sys
          /\ gens' = g2
          /\ stream' = SubSeq(stream \o e, 1,
                              Max(Len(stream), Max(g2[1], g2[2])))
    /\ UNCHANGED <<clock, frame, calls>>

NextPair ==
    \/ AdvanceClock
    \/ PairRegister
    \/ PairInitialize
    \/ PairTick

SpecPair == InitPair /\ [][NextPair]_vars

\* ---------------------------------------------------------- SpecSelect
\* A DecayEngine over two capabilities of any importance and of resistance
\* 0.0, 0.5 or 1.0; force_decay() selects its target by weight and decays
\* it, so that every combination of levels is met.
SelectImportance == {TRIVIAL, LOW, MEDIUM, HIGH, CRITICAL, ESSENTIAL}
SelectResistance == {0, 5, 10}

InitSelect ==
    /\ \E imp \in [{"a", "b"} -> SelectImportance],
          res \in [{"a", "b"} -> SelectResistance] :
          InitSys([NewSystem(1, 40, 0) EXCEPT
                     !.registry = register_function(
                                      register_function(@, "function", "a",
                                                        imp["a"], res["a"]),
                                      "function", "b", imp["b"], res["b"])])
    /\ clock = 0
    /\ InitAlone

\* engine.force_decay()
SelForceDecay ==
    /\ \E d \in DrawSeqs(1) : SetSys(force_decay(Sys, None, clock, d).sys)
    /\ UNCHANGED clock
    /\ Alone

\* engine.apply_decay(name)
SelApplyDecay ==
    /\ \E n \in {"a", "b"} : SetSys(apply_decay(Sys, n, clock).sys)
    /\ UNCHANGED clock
    /\ Alone

NextSelect ==
    \/ SelForceDecay
    \/ SelApplyDecay

SpecSelect == InitSelect /\ [][NextSelect]_vars

\* ------------------------------------------------------------ SpecTick
\* A Lethe over up to three capabilities, one of them registered under the
\* empty string, initialized and then driven through tick(), pause() and
\* resume() while the clock advances.
MaxTicks == 2
TickOrder == <<"", "a", "b">>
TickInterval == {0, 1}

\* lethe.register_function for the names of TickOrder that are in present,
\* in that order
RECURSIVE RegisterPresent(_, _, _, _)
RegisterPresent(S, k, present, imp) ==
    IF k = 0 THEN S
    ELSE IF TickOrder[k] \notin present
    THEN RegisterPresent(S, k - 1, present, imp)
    ELSE [RegisterPresent(S, k - 1, present, imp) EXCEPT
            !.registry = register_function(@, "function", TickOrder[k],
                                           imp[TickOrder[k]], 5)]

InitTick ==
    /\ \E iv \in TickInterval, p \in InputProbability :
       \E present \in SUBSET {"", "a", "b"} :
       \E imp \in [{"", "a", "b"} -> InputImportance] :
          /\ \A n \in {"", "a", "b"} \ present : imp[n] = TRIVIAL
          /\ InitSys(initialize(RegisterPresent(NewSystem(iv, p, 0), 3,
                                                present, imp)))
    /\ clock = 0
    /\ InitAlone

\* time passes between two calls
TkAdvanceClock ==
    /\ clock < MaxEngineClock
    /\ clock' = clock + 1
    /\ UNCHANGED <<registry, engine, safety, introspector, lethe,
                   twin, gens, stream, frame, calls>>

\* lethe.tick()
TkTick ==
    /\ lethe.iteration_count < MaxTicks
    /\ \E d \in DrawSeqs(3) :
       \E r \in {lethe_tick(Sys, clock, d)} : SetSys(r.sys)
    /\ UNCHANGED clock
    /\ Alone

\* lethe.pause()
TkPause ==
    /\ SetSys(pause(Sys))
    /\ UNCHANGED clock
    /\ Alone

\* lethe.resume()
TkResume ==
    /\ SetSys(resume(Sys))
    /\ UNCHANGED clock
    /\ Alone

NextTick ==
    \/ TkAdvanceClock
    \/ TkTick
    \/ TkPause
    \/ TkResume

SpecTick == InitTick /\ [][NextTick]_vars

\* ------------------------------------------------------------ SpecRace
\* Two threads calling engine.apply_decay(name) on one DecayEngine, the
\* statements of the two calls interleaved.  calls[t] is the call of thread
\* t: pc its position in apply_decay, name its argument, old_level the
\* level it read, made the number of calls the thread has made.
MaxCalls == 2
Threads == {1, 2}
RaceNames == {"a", "b"}

IdleCall == [pc |-> "idle", name |-> "", old_level |-> 0, made |-> 0]

InitRace ==
    /\ \E imp \in [RaceNames -> InputImportance] :
          InitSys([NewSystem(1, 40, 0) EXCEPT
                     !.registry = register_function(
                                      register_function(@, "function", "a",
                                                        imp["a"], 5),
                                      "function", "b", imp["b"], 5)])
    /\ clock = 0
    /\ twin = NoTwin
    /\ gens = <<0, 0>>
    /\ stream = <<>>
    /\ frame = NoFrame
    /\ calls = [t \in Threads |-> IdleCall]

NoRun == UNCHANGED <<clock, twin, gens, stream, frame>>

\* thread t calls engine.apply_decay(n)
RaceCall(t) ==
    /\ calls[t].pc = "idle"
    /\ calls[t].made < MaxCalls
    /\ \E n \in RaceNames \cup {Unregistered} :
          calls' = [calls EXCEPT ![t] = [pc |-> "read", name |-> n,
                                         old_level |-> 0,
                                         made |-> @.made + 1]]
    /\ UNCHANGED <<registry, engine, safety, introspector, lethe>>
    /\ NoRun

\* meta = get_metadata(name); the returns for no metadata and for an
\* Essential capability; old_level = meta.degradation_level; the return for
\* new_level > 3
RaceRead(t) ==
    /\ calls[t].pc = "read"
    /\ LET meta == get_metadata(registry, calls[t].name)
       IN  calls' = [calls EXCEPT ![t] =
                IF meta = None THEN [@ EXCEPT !.pc = "idle"]
                ELSE IF meta[1].importance = ESSENTIAL
                THEN [@ EXCEPT !.pc = "idle"]
                ELSE IF meta[1].degradation_level + 1 > 3
                THEN [@ EXCEPT !.pc = "idle"]
                ELSE [@ EXCEPT !.pc = "branch",
                               !.old_level = meta[1].degradation_level]]
    /\ UNCHANGED <<registry, engine, safety, introspector, lethe>>
    /\ NoRun

\* the branch for new_level: replace_capability or mark_deleted
RaceBranch(t) ==
    /\ calls[t].pc = "branch"
    /\ registry' = DecayEffect(registry, calls[t].name,
                               calls[t].old_level + 1)
    /\ calls' = [calls EXCEPT ![t].pc = "mark"]
    /\ UNCHANGED <<engine, safety, introspector, lethe>>
    /\ NoRun

\* self._registry.mark_degraded(name, new_level)
RaceMark(t) ==
    /\ calls[t].pc = "mark"
    /\ registry' = mark_degraded(registry, calls[t].name,
                                 calls[t].old_level + 1)
    /\ calls' = [calls EXCEPT ![t].pc = "record"]
    /\ UNCHANGED <<engine, safety, introspector, lethe>>
    /\ NoRun

\* the event is appended to the history and the counters are updated
RaceRecord(t) ==
    /\ calls[t].pc = "record"
    /\ engine' = [engine EXCEPT
          !.decay_history =
              Append(@, [timestamp |-> clock,
                         capability_name |-> calls[t].name,
                         decay_type |->
                             DecayType(registry.metadata[calls[t].name],
                                       calls[t].old_level + 1),
                         old_level |-> calls[t].old_level,
                         new_level |-> calls[t].old_level + 1]),
          !.total_decays = @ + 1,
          !.last_decay_time = clock]
    /\ calls' = [calls EXCEPT ![t].pc = "idle"]
    /\ UNCHANGED <<registry, safety, introspector, lethe>>
    /\ NoRun

NextRace ==
    \/ \E t \in Threads : RaceCall(t)
    \/ \E t \in Threads : RaceRead(t)
    \/ \E t \in Threads : RaceBranch(t)
    \/ \E t \in Threads : RaceMark(t)
    \/ \E t \in Threads : RaceRecord(t)

SpecRace == InitRace /\ [][NextRace]_vars

\* ================================================================== claims
Level(R, n) == R.metadata[n].degradation_level

Essentials(R) == {n \in DOMAIN R.metadata : R.metadata[n].importance = ESSENTIAL}

\* P holds of what each call of Lethe.tick and Lethe.force_decay returns in
\* the current state
ForLetheDecayCalls(P(_)) ==
    /\ \A d \in DrawSeqs(3) : P(lethe_tick(Sys, clock, d))
    /\ \A name \in NameArgs, d \in DrawSeqs(1) :
          P(lethe_force_decay(Sys, name, clock, d))

\* C1: no step of the system (apply_decay, tick and force_decay among them)
\* decreases a capability's degradation_level or takes it above 3, and in
\* every reachable state apply_decay on any name leaves every level between
\* its current value and 3.
C1_LevelMonotoneBounded ==
    /\ [][\A n \in DOMAIN registry.metadata :
             /\ n \in DOMAIN registry'.metadata
             /\ Level(registry, n) <= Level(registry', n)
             /\ Level(registry', n) <= 3]_vars
    /\ [](\A m \in AllNames : \A n \in DOMAIN registry.metadata :
             Level(apply_decay(Sys, m, clock).sys.registry, n)
                 \in Level(registry, n)..3)

\* a capability has been decayed three times and is deleted
C1_Witness ==
    \E n \in DOMAIN registry.metadata :
        /\ Level(registry, n) = 3
        /\ engine.total_decays >= 3

\* C2: in every state reached by tick and force_decay operations (named or
\* random target, on the engine or through Lethe, safety layer active or
\* not) every Essential capability is at level 0 and no DecayEvent recorded
\* names it.
C2_EssentialNeverDecays ==
    \A n \in Essentials(registry) :
        /\ Level(registry, n) = 0
        /\ \A i \in 1..Len(engine.decay_history) :
               engine.decay_history[i].capability_name # n

\* ticks and decays have run next to an Essential capability with the safety
\* layer deactivated
C2_Witness ==
    /\ Essentials(registry) # {}
    /\ ~safety.is_active
    /\ lethe.iteration_count > 0
    /\ engine.total_decays >= 2

KindOfLevel(new_level) ==
    IF new_level = 1 THEN "approximate"
    ELSE IF new_level = 2 THEN "stub" ELSE "delete"

\* C6: apply_decay on a non-essential capability at level L < 3 returns one
\* event with old_level L, new_level L + 1 and the kind of the new level
\* (1 approximate, 2 stub, 3 delete) and leaves the capability at L + 1; at
\* level 3 it returns no event.  Successive calls therefore yield
\* approximate, stub, delete in this order and then nothing.
C6_DecayProgression ==
    \A n \in DOMAIN registry.metadata \ Essentials(registry) :
        LET L == Level(registry, n)
            r == apply_decay(Sys, n, clock)
        IN  IF L < 3
            THEN /\ r.event # None
                 /\ r.event[1].capability_name = n
                 /\ r.event[1].old_level = L
                 /\ r.event[1].new_level = L + 1
                 /\ r.event[1].decay_type = KindOfLevel(L + 1)
                 /\ Level(r.sys.registry, n) = L + 1
            ELSE r.event = None

\* C10: while the safety layer is active should_allow_decay is false for
\* every Essential capability; while it is deactivated should_allow_decay is
\* true for every name.
C10_ShouldAllowEssential ==
    \A n \in AllNames :
        /\ (safety.is_active /\ n \in Essentials(registry))
               => ~should_allow_decay(Sys, n, clock).result
        /\ ~safety.is_active => should_allow_decay(Sys, n, clock).result

\* the layer is deactivated while an Essential capability is the only active
\* one
C10_Witness ==
    /\ ~safety.is_active
    /\ Essentials(registry) # {}
    /\ active_count(registry) = 1
    /\ engine.total_decays > 0

\* C3: once a capability's degradation_level is 3, every operation leaves it
\* at 3 and leaves get(name) absent.
C3_DeletedStaysDeleted ==
    [][\A n \in DOMAIN registry.metadata :
          Level(registry, n) = 3
              => /\ n \in DOMAIN registry'.metadata
                 /\ Level(registry', n) = 3
                 /\ get(registry', n) = None]_vars

\* C4: after initialize(), while the safety layer is active and some
\* capability is active, no Lethe.tick() and no Lethe.force_decay(name or no
\* name) leaves the registry without an active capability.
C4_KeepsOneActive ==
    (/\ lethe.state # "initializing"
     /\ safety.is_active
     /\ active_count(registry) >= 1)
        => ForLetheDecayCalls(LAMBDA r : active_count(r.sys.registry) >= 1)

\* C5: whenever Lethe.tick() returns a DecayEvent for capability c,
\* should_allow_decay(c) is true in the state the tick started from.
C5_TickDecayIsAllowed ==
    \A d \in DrawSeqs(3) :
        LET r == lethe_tick(Sys, clock, d)
        IN  r.event # None
                => should_allow_decay(Sys, r.event[1].capability_name,
                                      clock).result

\* the status the claim assigns to an active percentage
StatusOfPercentage(active, total) ==
    IF active * 100 >= 60 * total THEN "normal"
    ELSE IF active * 100 >= 40 * total THEN "caution"
    ELSE IF active * 100 >= 25 * total THEN "warning"
    ELSE IF active * 100 >= 10 * total THEN "critical"
    ELSE "emergency"

ActiveNames(R) ==
    {n \in DOMAIN R.metadata :
        Level(R, n) = 0 /\ ~InSeq(n, R.deleted_capabilities)}

HardOverride(R) ==
    \/ capability_count(R) = 0
    \/ ActiveNames(R) \cap Essentials(R) = {}
    \/ Cardinality(ActiveNames(R)) <= 1

\* C8: when no hard override applies, the status check() reports is the one
\* of the active percentage: normal from 60, caution from 40, warning from
\* 25, critical from 10, emergency below.
C8_StatusByPercentage ==
    ~HardOverride(registry)
        => CheckOf(registry, clock).status
               = StatusOfPercentage(Cardinality(ActiveNames(registry)),
                                    capability_count(registry))

\* C9: check() reports emergency whenever the registry is empty, no
\* Essential capability is active or at most one capability is active,
\* whatever the active percentage; and intervention_needed exactly when the
\* status is critical or emergency.
C9_HardOverrides ==
    LET c == CheckOf(registry, clock)
    IN  /\ HardOverride(registry) => c.status = "emergency"
        /\ c.intervention_needed <=> c.status \in {"critical", "emergency"}
        /\ c.status = "emergency" => check(Sys, clock).safety.emergency_mode
        /\ c.active_count = Cardinality(ActiveNames(registry))

\* check() has reported emergency on a registry whose capabilities are all
\* active: the percentage is 100 and no capability is Essential
C9_Witness ==
    /\ safety.emergency_mode
    /\ capability_count(registry) >= 2
    /\ Cardinality(ActiveNames(registry)) = capability_count(registry)
    /\ Essentials(registry) = {}

\* the targets and kinds of a decay history, in order
EventsOf(history) ==
    [i \in 1..Len(history) |->
        <<history[i].capability_name, history[i].decay_type>>]

C11_ShouldAllowNonEssential ==
    \A n \in (DOMAIN registry.metadata \cup {Unregistered})
                \ Essentials(registry) :
        safety.is_active
            => (~should_allow_decay(Sys, n, clock).result
                  <=> \/ Cardinality(ActiveNames(registry)) <= 1
                      \/ /\ Cardinality(ActiveNames(registry)) <= 2
                         /\ n \in ActiveNames(registry)
                         /\ CheckOf(registry, clock).status
                                \in {"critical", "emergency"})

\* two capabilities are active, one of them Essential, the status is
\* critical and should_allow_decay refuses the other one
C11_Witness ==
    /\ safety.is_active
    /\ Cardinality(ActiveNames(registry)) = 2
    /\ CheckOf(registry, clock).status = "critical"
    /\ \E n \in ActiveNames(registry) \ Essentials(registry) :
           ~should_allow_decay(Sys, n, clock).result
    /\ \E n \in DOMAIN registry.metadata \ ActiveNames(registry) :
           should_allow_decay(Sys, n, clock).result

\* C12: registering a name that is already registered is refused and leaves
\* the registry as it was: the implementation, the metadata, the level, the
\* flags and the execution count of the existing capability are unchanged.
C12_DuplicateRegistrationRejected ==
    \A n \in DOMAIN registry.capabilities :
        \A f \in InputFunction, imp \in InputImportance,
           res \in InputResistance :
            LET R == register_function(registry, f, n, imp, res)
            IN  /\ R.capabilities[n] = registry.capabilities[n]
                /\ R.metadata[n] = registry.metadata[n]

\* names that were never registered
NeverRegistered(R) == (CallNames \cup {Unregistered}) \ DOMAIN R.capabilities

\* C13: execute(name) raises KeyError exactly when name was never
\* registered; for a registered capability that has been deleted it returns
\* None, raises nothing and invokes no implementation.
C13_ExecuteNotFound ==
    \A n \in CallNames \cup {Unregistered} :
        /\ execute(registry, n).raises = Some("KeyError")
               <=> n \in NeverRegistered(registry)
        /\ (n \in DOMAIN registry.capabilities
               /\ InSeq(n, registry.deleted_capabilities))
               => /\ execute(registry, n).raises = None
                  /\ execute(registry, n).result = None
                  /\ execute(registry, n).invoked = None
                  /\ execute(registry, n).registry = registry

\* what a caller can observe of name: get and execute
Observed(R, name) ==
    <<get(R, name), execute(R, name).raises, execute(R, name).result>>

\* C14: mark_degraded(name, level) and mark_deleted(name) with a name that
\* was never registered leave the active, degraded and deleted lists, the
\* metadata and the results of get(name) and execute(name) as they were;
\* and either call made twice on a known name has the effect of one call.
C14_MarkUnknownIsNoOp ==
    /\ \A n \in NeverRegistered(registry) :
           \A R \in {mark_deleted(registry, n)}
                    \cup {mark_degraded(registry, n, level) :
                             level \in InputLevel} :
               /\ list_active_capabilities(R)
                      = list_active_capabilities(registry)
               /\ R.degraded_capabilities = registry.degraded_capabilities
               /\ R.deleted_capabilities = registry.deleted_capabilities
               /\ R.metadata = registry.metadata
               /\ Observed(R, n) = Observed(registry, n)
    /\ \A n \in DOMAIN registry.capabilities :
           /\ mark_deleted(mark_deleted(registry, n), n)
                  = mark_deleted(registry, n)
           /\ \A level \in InputLevel :
                  mark_degraded(mark_degraded(registry, n, level), n, level)
                      = mark_degraded(registry, n, level)

\* C15: execute(name) of a registered capability that is not deleted
\* invokes the implementation currently stored for it and adds exactly one
\* to its execution_count, at level 0, 1 and 2 alike.
C15_ExecuteCounts ==
    \A n \in DOMAIN registry.capabilities :
        ~InSeq(n, registry.deleted_capabilities)
            => /\ execute(registry, n).invoked
                      = Some(registry.capabilities[n])
               /\ execute(registry, n).registry.metadata[n].execution_count
                      = registry.metadata[n].execution_count + 1

\* C18: on a registry with zero capabilities ensure_minimum_capability()
\* leaves exactly one registered capability, Essential and of resistance
\* 1.0, whose execution returns a value and raises nothing, and a second
\* call changes nothing; on a registry with an active capability it changes
\* nothing.
C18_EnsureMinimum ==
    /\ capability_count(registry) = 0
           => \A S1 \in {ensure_minimum_capability(Sys)} :
                 /\ DOMAIN S1.registry.capabilities = {HeartbeatName}
                 /\ DOMAIN S1.registry.metadata = {HeartbeatName}
                 /\ S1.registry.metadata[HeartbeatName].importance = ESSENTIAL
                 /\ S1.registry.metadata[HeartbeatName]
                        .degradation_resistance = 10
                 /\ execute(S1.registry, HeartbeatName).raises = None
                 /\ execute(S1.registry, HeartbeatName).result # None
                 /\ ensure_minimum_capability(S1) = S1
    /\ active_count(registry) >= 1
           => ensure_minimum_capability(Sys) = Sys

\* comparisons of health values, fractions with positive denominators
HealthLess(p, q) == p[1] * q[2] < q[1] * p[2]
HealthEqual(p, q) == p[1] * q[2] = q[1] * p[2]

\* the capabilities known at initialization, and those of them that are
\* not Essential
Known == introspector.known_capabilities
KnownNonEssential == Known \ Essentials(registry)

\* C16: the health is 100 when every capability known at initialization is
\* at level 0, lies in [0, 100], is strictly between 0 and 100 when some
\* but not all of the known non-essential capabilities are at level 3
\* (deleted), is 0 only when every known capability is at level 3, and
\* every step that raises the level of a known capability strictly lowers
\* it.
C16_HealthScale ==
    /\ [](LET h == calculate_health(Sys)
              deleted == {n \in KnownNonEssential : Level(registry, n) = 3}
          IN  /\ (\A n \in Known : Level(registry, n) = 0)
                     => HealthEqual(h, Percent(100))
              /\ ~HealthLess(h, Percent(0))
              /\ ~HealthLess(Percent(100), h)
              /\ (deleted # {} /\ deleted # KnownNonEssential)
                     => HealthLess(Percent(0), h) /\ HealthLess(h, Percent(100))
              /\ HealthEqual(h, Percent(0))
                     => \A n \in Known : Level(registry, n) = 3)
    /\ [][(\E n \in Known : Level(registry', n) > Level(registry, n))
             => HealthLess(calculate_health(
                               [registry |-> registry', engine |-> engine',
                                safety |-> safety',
                                introspector |-> introspector',
                                lethe |-> lethe']),
                           calculate_health(Sys))]_vars

\* two non-essential capabilities were known at initialization; one has
\* been decayed to level 3 and the other to level 2
C16_Witness ==
    /\ introspector.initial_capability_count = 2
    /\ \E n \in KnownNonEssential, m \in KnownNonEssential :
           /\ Level(registry, n) = 3
           /\ Level(registry, m) = 2
    /\ engine.total_decays = 5

\* C17: when there were zero capabilities at initialization, the
\* health_percentage of get_current_state() is 100 in every later state.
C17_EmptyIsHealthy ==
    introspector.initial_capability_count = 0
        => HealthEqual(capture_health(Sys), Percent(100))

\* what each call of DecayEngine.tick, force_decay and apply_decay returns
\* in the current state
EngineCalls ==
    {tick(Sys, clock, d) : d \in DrawSeqs(2)}
        \cup {force_decay(Sys, name, clock, d) :
                 name \in EngineNameArgs, d \in DrawSeqs(1)}
        \cup {[sys |-> apply_decay(Sys, n, clock).sys,
               event |-> apply_decay(Sys, n, clock).event,
               used |-> 0] : n \in EngineNames}

\* C19: a call of DecayEngine.tick, force_decay or apply_decay that returns
\* no event leaves every capability's level, flags and implementation, the
\* registry's lists, the decay history, the total count and the last-decay
\* time as they were.
C19_NoEventNoEffect ==
    \A r \in EngineCalls :
        r.event = None
            => /\ r.sys.registry = registry
               /\ r.sys.engine.decay_history = engine.decay_history
               /\ r.sys.engine.total_decays = engine.total_decays
               /\ r.sys.engine.last_decay_time = engine.last_decay_time

\* the engine is disabled, one capability is Essential and the other is
\* deleted, the interval has elapsed since the last decay: tick, force_decay
\* with and without a name and apply_decay all return no event
C19_Witness ==
    /\ ~engine.is_enabled
    /\ Essentials(registry) # {}
    /\ \E n \in DOMAIN registry.metadata : Level(registry, n) = 3
    /\ get_degradation_candidates(registry) = <<>>
    /\ clock - engine.last_decay_time >= engine.decay_interval
    /\ \A r \in EngineCalls : r.event = None

\* the time of the most recent applied decay, or of the construction or the
\* reset of the engine when none was applied after it
LastDecayOrStart ==
    IF engine.decay_history # <<>>
    THEN engine.decay_history[Len(engine.decay_history)].timestamp
    ELSE engine.last_decay_time

\* C20: whenever DecayEngine.tick() returns an event the engine is enabled
\* and at least decay_interval has elapsed since the most recent applied
\* decay (by tick or by force), or since the construction or the reset of
\* the engine when no decay was applied after it; the event of a tick is
\* therefore at least decay_interval later than the event before it.
C20_TickWaitsInterval ==
    /\ engine.decay_history # <<>>
           => engine.last_decay_time = LastDecayOrStart
    /\ \A d \in DrawSeqs(2) :
           \A r \in {tick(Sys, clock, d)} :
               r.event # None
                   => /\ engine.is_enabled
                      /\ clock - LastDecayOrStart >= engine.decay_interval
                      /\ engine.decay_history # <<>>
                             => r.event[1].timestamp - LastDecayOrStart
                                    >= engine.decay_interval

\* two decays have been applied one interval apart, and one more interval
\* later a tick applies a third
C20_Witness ==
    /\ Len(engine.decay_history) = 2
    /\ engine.decay_history[2].timestamp - engine.decay_history[1].timestamp
           = engine.decay_interval
    /\ clock - engine.decay_history[2].timestamp = engine.decay_interval
    /\ \E d \in DrawSeqs(2) : tick(Sys, clock, d).event # None

\* r is the result of a forced decay of capability n in the current state:
\* it returns the event of one step of n, n is one level further, the event
\* is the one appended to the history and no other capability has changed
OneStepOf(r, n) ==
    /\ r.event # None
    /\ r.event[1].capability_name = n
    /\ r.event[1].old_level = Level(registry, n)
    /\ r.event[1].new_level = Level(registry, n) + 1
    /\ Level(r.sys.registry, n) = Level(registry, n) + 1
    /\ r.sys.engine.decay_history
           = Append(engine.decay_history, r.event[1])
    /\ r.sys.engine.total_decays = engine.total_decays + 1
    /\ \A m \in DOMAIN registry.metadata \ {n} :
           r.sys.registry.metadata[m] = registry.metadata[m]

\* C21: DecayEngine.force_decay(name) on a registered non-essential
\* capability whose level is below 3 applies exactly one decay step to that
\* capability and returns its event, whatever the time since the last decay,
\* whatever the draw against decay_probability and whether the engine is
\* enabled or not; force_decay() without a name does the same to one of the
\* degradation candidates and returns no event only when there are none.
C21_ForceDecayApplies ==
    \A d \in DrawSeqs(1) :
        /\ \A n \in DOMAIN registry.metadata \ Essentials(registry) :
               Level(registry, n) < 3
                   => OneStepOf(force_decay(Sys, Some(n), clock, d), n)
        /\ \A r \in {force_decay(Sys, None, clock, d)} :
               IF get_degradation_candidates(registry) = <<>>
               THEN r.event = None
               ELSE \E i \in DOMAIN get_degradation_candidates(registry) :
                       OneStepOf(r, get_degradation_candidates(registry)[i])

\* the engine is disabled and a decay was applied at this very time, so no
\* tick decays, and a capability at level 2 is forced to level 3, by name and
\* without a name
C21_Witness ==
    /\ ~engine.is_enabled
    /\ engine.decay_history # <<>>
    /\ engine.last_decay_time = clock
    /\ \A d \in DrawSeqs(2) : tick(Sys, clock, d).event = None
    /\ \E n \in DOMAIN registry.metadata :
          /\ Level(registry, n) = 2
          /\ get_degradation_candidates(registry) = <<n>>
          /\ \A d \in DrawSeqs(1) :
                /\ force_decay(Sys, Some(n), clock, d).event # None
                /\ force_decay(Sys, None, clock, d).event # None

\* C22: between two resets of the engine the decay history only grows at
\* its end, one event at a step, with the events it held unchanged and in
\* place; every call that returns an event has appended exactly that event;
\* and total_decays equals the length of the history.
C22_HistoryAppendOnly ==
    /\ [](/\ engine.total_decays = Len(engine.decay_history)
          /\ \A r \in EngineCalls :
                /\ r.sys.engine.total_decays
                       = Len(r.sys.engine.decay_history)
                /\ r.sys.engine.decay_history
                       = IF r.event = None THEN engine.decay_history
                         ELSE Append(engine.decay_history, r.event[1]))
    /\ [][\/ EngReset
          \/ engine.decay_history' = engine.decay_history
          \/ /\ Len(engine.decay_history') = Len(engine.decay_history) + 1
             /\ SubSeq(engine.decay_history', 1, Len(engine.decay_history))
                    = engine.decay_history]_vars

\* two events have been appended since a reset that followed an earlier
\* decay: a capability is deleted and another degraded while the history
\* holds two events
C22_Witness ==
    /\ Len(engine.decay_history) = 2
    /\ engine.total_decays = 2
    /\ \E n, m \in DOMAIN registry.metadata :
          /\ n # m
          /\ Level(registry, n) = 3
          /\ Level(registry, m) >= 1

\* C29: DecayEngine.reset() empties the decay history and zeroes the total
\* count, and leaves the registry as it was: every capability's level,
\* flags and implementation, and the degraded and deleted lists.
C29_ResetFrame ==
    \A S1 \in {reset(Sys, clock)} :
        /\ S1.engine.decay_history = <<>>
        /\ S1.engine.total_decays = 0
        /\ S1.registry = registry

\* a reset has just emptied a history: no event and a count of zero, while
\* one capability is deleted and on the deleted list and another degraded
C29_Witness ==
    /\ engine.decay_history = <<>>
    /\ engine.total_decays = 0
    /\ engine.last_decay_time = clock
    /\ clock > 0
    /\ \E n, m \in DOMAIN registry.metadata :
          /\ Level(registry, n) = 3
          /\ InSeq(n, registry.deleted_capabilities)
          /\ Level(registry, m) \in {1, 2}
          /\ InSeq(m, registry.degraded_capabilities)

\* the Python type of what a registered function of the model returns, the
\* text "value" (ReturnOf)
FormerResultType == "str"

\* C30: once the step from level 1 to level 2 has installed the stub,
\* executing the capability calls the stub and not the original
\* implementation, and returns the fixed default of the type of the former
\* result: the empty string for the text the original returned.
C30_StubReturnsDefault ==
    \A n \in DOMAIN registry.capabilities :
        (/\ registry.capabilities[n] = "stub"
         /\ ~InSeq(n, registry.deleted_capabilities))
            => \A r \in {execute(registry, n)} :
                  /\ r.raises = None
                  /\ r.invoked = Some("stub")
                  /\ r.registry.metadata[n].execution_count
                         = registry.metadata[n].execution_count
                  /\ r.result = create_stub(Some(FormerResultType))

\* C27: get_degradation_candidates() returns exactly the registered names
\* whose importance is not Essential and whose level is below 3, each once,
\* by ascending importance and, for equal importance, ascending resistance.
C27_CandidatesExact ==
    \A c \in {get_degradation_candidates(registry)} :
        /\ {c[i] : i \in DOMAIN c}
               = {n \in DOMAIN registry.metadata :
                     /\ registry.metadata[n].importance # ESSENTIAL
                     /\ Level(registry, n) < 3}
        /\ \A i, j \in DOMAIN c : c[i] = c[j] => i = j
        /\ \A i, j \in DOMAIN c :
               i < j =>
                  \/ registry.metadata[c[i]].importance
                         < registry.metadata[c[j]].importance
                  \/ /\ registry.metadata[c[i]].importance
                            = registry.metadata[c[j]].importance
                     /\ registry.metadata[c[i]].degradation_resistance
                            <= registry.metadata[c[j]].degradation_resistance

\* C28: a step changes the level of a capability only by exactly +1, to at
\* most 3, and only when the step is apply_decay on that capability; the
\* other operations of the registry leave every level as it was.
C28_LevelOnlyByApply ==
    [][\A n \in DOMAIN registry.metadata :
           Level(registry', n) # Level(registry, n)
               => /\ Level(registry', n) = Level(registry, n) + 1
                  /\ Level(registry', n) <= 3
                  /\ registry' = apply_decay(Sys, n, clock).sys.registry
                  /\ engine' = apply_decay(Sys, n, clock).sys.engine]_vars

\* C23: while the layer is active a call of SafetyLayer.intervene() adds
\* exactly one to the intervention counter; when the status is emergency and
\* a fallback is registered the fallback is called once and intervene
\* returns false exactly when the fallback raises; when the status is not
\* emergency nothing is called and intervene returns true.
C23_Intervene ==
    \A r \in {intervene(Sys, clock)} :
        safety.is_active
            => /\ r.sys.safety.interventions = safety.interventions + 1
               /\ (/\ CheckOf(registry, clock).status = "emergency"
                   /\ safety.fallback # "none")
                      => /\ r.invoked = 1
                         /\ r.result = (safety.fallback # "raises")
               /\ CheckOf(registry, clock).status # "emergency"
                      => /\ r.invoked = 0
                         /\ r.result = TRUE

\* C24: an Exception raised by a capability implementation during the
\* execution step of Lethe.tick is caught by the safety wrapper and becomes
\* the result None: the capability counts as executed like one that returns
\* and nothing propagates; a tick therefore executes every active
\* capability, raising or not, goes on to its decay step and its safety
\* check on the registry the execution step left, and returns a
\* LoopIteration that counts all of them.
C24_FailuresAbsorbed ==
    /\ [](\A active \in {list_active_capabilities(registry)} :
          \A ex \in {ExecuteCounting(registry, active, 1, 0)} :
             /\ \A i \in DOMAIN active :
                    (/\ get(registry, active[i]) # None
                     /\ Raises(registry, active[i]))
                        => /\ wrap_with_safety(registry, active[i]).raises
                                  = None
                           /\ wrap_with_safety(registry, active[i]).result
                                  = None
             /\ ex.executed
                    = Cardinality({i \in DOMAIN active :
                                      get(registry, active[i]) # None})
             /\ ex.registry = execute_capabilities(Sys).registry)
    /\ [][lethe'.iteration_count = lethe.iteration_count + 1
             => /\ \A n \in DOMAIN registry.metadata :
                       (/\ ~registry.metadata[n].is_degraded
                        /\ get(registry, n) # None)
                           => registry'.metadata[n].execution_count
                                  = registry.metadata[n].execution_count + 1
                /\ \E d \in DrawSeqs(3) :
                   \E it \in {tick_iteration(Sys, clock, d)} :
                      /\ it.iteration = lethe'.iteration_count
                      /\ it.capabilities_executed
                             = Len(list_active_capabilities(registry))
                      /\ it.decay_event # None
                             => /\ engine'.decay_history # <<>>
                                /\ it.decay_event[1]
                                       = engine'.decay_history[
                                             Len(engine'.decay_history)]
                      /\ it.decay_event = None => engine' = engine
                      /\ safety' = check_safety(
                                       [Sys EXCEPT !.registry = registry',
                                                   !.engine = engine'],
                                       clock).safety]_vars

\* inside run, after an iteration in which all three capabilities raised:
\* they are about to be executed again and the tick applies a decay all the
\* same
C24_Witness ==
    /\ frame.pc = "tick"
    /\ lethe.iteration_count >= 1
    /\ \A n \in {"a", "b", "c"} :
          /\ n \in DOMAIN registry.metadata
          /\ Raises(registry, n)
          /\ registry.metadata[n].execution_count >= 1
    /\ \E d \in DrawSeqs(3) :
          /\ tick_iteration(Sys, clock, d).decay_event # None
          /\ tick_iteration(Sys, clock, d).capabilities_executed = 3

\* C25: a call run(max_iterations=N) with N a non-negative integer performs
\* no more than N iterations of its loop, returns after exactly N when no
\* stop request has arrived, and returns with the state STOPPED and
\* is_running false.
C25_RunStopsAtLimit ==
    /\ [](frame.max_iterations # None
             => frame.performed <= frame.max_iterations[1])
    /\ [][(frame.pc = "finally" /\ frame'.pc = "returned"
           /\ frame.max_iterations # None)
             => /\ lethe'.state = "stopped"
                /\ ~lethe'.running
                /\ ~frame.stop_requested
                       => frame.performed = frame.max_iterations[1]]_vars

\* C26: once a stop request has arrived after run() was entered, the loop
\* of run begins no new iteration: from the test of the loop it never goes
\* on to another tick.
C26_StopEndsLoop ==
    [][(frame.stop_requested /\ frame.pc = "test")
          => frame'.pc # "tick"]_vars

\* the objects after the step
SysNext ==
    [registry |-> registry', engine |-> engine', safety |-> safety',
     introspector |-> introspector', lethe |-> lethe']

\* C31: a step that registers or degrades only capabilities that were not
\* known when Introspector.initialize() ran leaves the health reading of
\* get_current_state() as it was, and a step that raises the level of a
\* known capability lowers the reading at once.
C31_HealthOverKnown ==
    [][/\ (/\ introspector' = introspector
           /\ DOMAIN registry.metadata \subseteq DOMAIN registry'.metadata
           /\ \A n \in Known \cap DOMAIN registry.metadata :
                  registry'.metadata[n] = registry.metadata[n])
              => HealthEqual(capture_health(SysNext), capture_health(Sys))
       /\ (/\ introspector' = introspector
           /\ \E n \in Known : Level(registry', n) > Level(registry, n))
              => HealthLess(capture_health(SysNext), capture_health(Sys))]_vars

\* C32: check(), get_status(), should_allow_decay() and intervene() leave
\* the registry as it was: every capability's level, flags and
\* implementation and the lists behind list_active, list_degraded and
\* list_deleted; ensure_minimum_capability() writes to the registry, when
\* no capability is active.
C32_SafetyIsMonitor ==
    /\ check(Sys, clock).registry = registry
    /\ get_status(Sys, clock).registry = registry
    /\ intervene(Sys, clock).sys.registry = registry
    /\ \A n \in DOMAIN registry.metadata \cup {Unregistered} :
           should_allow_decay(Sys, n, clock).sys.registry = registry
    /\ (ensure_minimum_capability(Sys).registry # registry)
           = (list_active_capabilities(registry) = <<>>)

\* the layer has intervened in an emergency in which no capability is
\* active: both capabilities are degraded, and only
\* ensure_minimum_capability would write to the registry
C32_Witness ==
    /\ safety.is_active
    /\ safety.interventions >= 1
    /\ safety.emergency_mode
    /\ capability_count(registry) = 2
    /\ list_active_capabilities(registry) = <<>>
    /\ CheckOf(registry, clock).status = "emergency"
    /\ ensure_minimum_capability(Sys).registry # registry

\* C33: for every registered name, being on the deleted list, being at
\* level 3 and get(name) being absent are equivalent; so are being on the
\* degraded list, is_degraded and a level of at least 1; and the name is in
\* list_active exactly when its level is 0.
C33_ListsAgreeWithLevels ==
    \A n \in DOMAIN registry.metadata :
        /\ InSeq(n, list_deleted_capabilities(registry))
               = (Level(registry, n) = 3)
        /\ (Level(registry, n) = 3) = (get(registry, n) = None)
        /\ InSeq(n, list_degraded_capabilities(registry))
               = registry.metadata[n].is_degraded
        /\ registry.metadata[n].is_degraded = (Level(registry, n) >= 1)
        /\ InSeq(n, list_active_capabilities(registry))
               = (Level(registry, n) = 0)

\* what a decay operation on registry R giving R2 leaves alone when it acts
\* on the names in touched only
FrameKept(R, R2, touched) ==
    /\ DOMAIN R2.metadata = DOMAIN R.metadata
    /\ DOMAIN R2.capabilities = DOMAIN R.capabilities
    /\ capability_count(R2) = capability_count(R)
    /\ \A m \in DOMAIN R.metadata :
          /\ get_metadata(R2, m) # None
          /\ R2.metadata[m].importance = R.metadata[m].importance
          /\ R2.metadata[m].degradation_resistance
                 = R.metadata[m].degradation_resistance
          /\ R2.metadata[m].dependencies = R.metadata[m].dependencies
          /\ m \notin touched =>
                /\ R2.metadata[m] = R.metadata[m]
                /\ R2.capabilities[m] = R.capabilities[m]
                /\ InSeq(m, R2.degraded_capabilities)
                       = InSeq(m, R.degraded_capabilities)
                /\ InSeq(m, R2.deleted_capabilities)
                       = InSeq(m, R.deleted_capabilities)

\* the names of the event of a decay operation: one, or none
NamedBy(event) ==
    IF event = None THEN {} ELSE {event[1].capability_name}

\* C34: apply_decay(n) changes the level, flags and implementation of n
\* only, whatever depends on n or n depends on; and apply_decay, tick and
\* force_decay change no capability's importance, resistance or
\* dependencies, nor the set of registered names, nor capability_count().
C34_DecayFrame ==
    /\ \A n \in EngineNames :
          /\ FrameKept(registry, apply_decay(Sys, n, clock).sys.registry, {n})
          /\ NamedBy(apply_decay(Sys, n, clock).event) \subseteq {n}
    /\ \A d \in DrawSeqs(2) :
          FrameKept(registry, tick(Sys, clock, d).sys.registry,
                    NamedBy(tick(Sys, clock, d).event))
    /\ \A name \in EngineNameArgs, d \in DrawSeqs(1) :
          FrameKept(registry, force_decay(Sys, name, clock, d).sys.registry,
                    NamedBy(force_decay(Sys, name, clock, d).event))

\* the second capability depends on the first, and each of them has been
\* decayed by the engine
C34_Witness ==
    /\ "s2" \in DOMAIN registry.metadata
    /\ get_dependents(registry, "s1") = {"s2"}
    /\ Level(registry, "s1") = 1
    /\ Level(registry, "s2") = 2
    /\ Len(engine.decay_history) = 3

\* the factor for the level in the weight of a candidate, in thirds
LevelThirds(meta) ==
    IF meta.is_degraded THEN 3 - meta.degradation_level ELSE 3

\* C36: the weight of a candidate of importance rank r, resistance q and
\* level L is ((N + 1 - r) / N) * (1 - q) with N = 5, times (3 - L) / 3 when
\* it is degraded, wherever that weight is above the minimum.
C36_WeightOverFiveTiers ==
    LET candidates == get_degradation_candidates(registry)
    IN  \A i \in 1..Len(candidates) :
            LET meta == registry.metadata[candidates[i]]
            IN  Weight(meta) > 9 =>
                    Weight(meta) * 150
                        = 900 * (6 - meta.importance)
                              * (10 - meta.degradation_resistance)
                              * LevelThirds(meta)

\* C36, amended: the weight is ((N + 1 - r) / N) * (1 - q) with N = 6, the
\* number of tiers, times (3 - L) / 3 when the candidate is degraded, and at
\* least 0.01; it is positive, and the draw that falls just above the
\* cumulative weight of the candidates before it selects the candidate.
C36_WeightOverSixTiers ==
    LET candidates == get_degradation_candidates(registry)
        total_weight == SumWeights(registry, candidates, Len(candidates))
    IN  \A i \in 1..Len(candidates) :
            LET meta == registry.metadata[candidates[i]]
                u == IF i = 1 THEN 0
                     ELSE (SumWeights(registry, candidates, i - 1) * 1000)
                              \div total_weight + 1
            IN  /\ Weight(meta) * 180
                       = Max(9 * 180,
                             900 * (7 - meta.importance)
                                 * (10 - meta.degradation_resistance)
                                 * LevelThirds(meta))
                /\ Weight(meta) > 0
                /\ u <= 999
                /\ select_target(registry, u).target = Some(candidates[i])

\* two candidates, the second in the order of selection of resistance 1.0
\* and already stubbed, the first already approximated
C36_Witness ==
    /\ get_degradation_candidates(registry) = <<"b", "a">>
    /\ registry.metadata["a"].degradation_resistance = 10
    /\ registry.metadata["a"].importance = CRITICAL
    /\ Level(registry, "a") = 2
    /\ registry.metadata["b"].importance = LOW
    /\ Level(registry, "b") = 1
    /\ Len(engine.decay_history) = 3

\* C37: with the safety layer active, a Lethe.tick() from a state with at
\* most one active capability appends no DecayEvent, and no Lethe.tick()
\* takes the number of active capabilities from at least 1 to 0.
C37_TickKeepsLastActive ==
    [][(/\ lethe'.iteration_count = lethe.iteration_count + 1
        /\ safety.is_active)
          => /\ active_count(registry) <= 1
                 => engine'.decay_history = engine.decay_history
             /\ active_count(registry) >= 1 => active_count(registry') >= 1]_vars

\* C40: pause() disables the decay engine; while it is disabled no
\* Lethe.tick() appends a DecayEvent, changes a capability's level or
\* enables the engine, and only resume() enables it; resume() leaves the
\* engine enabled and the state RUNNING.
C40_PausedUntilResume ==
    /\ [](/\ ~pause(Sys).engine.is_enabled
          /\ resume(pause(Sys)).engine.is_enabled
          /\ resume(pause(Sys)).lethe.state = "running")
    /\ [][~engine.is_enabled =>
            /\ lethe'.iteration_count = lethe.iteration_count + 1 =>
                  /\ engine'.decay_history = engine.decay_history
                  /\ ~engine'.is_enabled
                  /\ DOMAIN registry'.metadata = DOMAIN registry.metadata
                  /\ \A n \in DOMAIN registry.metadata :
                        Level(registry', n) = Level(registry, n)
            /\ engine'.is_enabled =>
                  /\ SysNext = resume(Sys)
                  /\ lethe'.state = "running"]_vars

\* a tick has run while the engine was paused, with a decay due and two
\* active capabilities to choose from: the tick left the state CRITICAL
C40_Witness ==
    /\ ~engine.is_enabled
    /\ lethe.state = "critical"
    /\ lethe.iteration_count >= 1
    /\ clock - engine.last_decay_time >= engine.decay_interval
    /\ active_count(registry) >= 2
    /\ get_degradation_candidates(registry) # <<>>
    /\ engine.decay_history = <<>>

\* the events of the history that name n, in history order
EventsNaming(n) ==
    SelectSeq(engine.decay_history, LAMBDA e : e.capability_name = n)

\* C38: without engine resets, direct mark_* calls and re-registration,
\* the level of every capability is the number of events of the history
\* that name it, the k-th of them leads from level k - 1 to level k, and
\* every event names a registered capability.
C38_HistoryAgreesWithLevels ==
    /\ \A n \in DOMAIN registry.metadata :
          /\ Len(EventsNaming(n)) = Level(registry, n)
          /\ \A k \in 1..Len(EventsNaming(n)) :
                /\ EventsNaming(n)[k].new_level = k
                /\ EventsNaming(n)[k].old_level = k - 1
                /\ k <= 3
    /\ \A i \in 1..Len(engine.decay_history) :
          engine.decay_history[i].capability_name \in DOMAIN registry.metadata
    /\ engine.total_decays = Len(engine.decay_history)

\* the history holds events of two capabilities interleaved
C38_Witness ==
    /\ Len(engine.decay_history) = 3
    /\ engine.decay_history[1].capability_name = "a"
    /\ engine.decay_history[2].capability_name = "b"
    /\ engine.decay_history[3].capability_name = "a"
    /\ Level(registry, "a") = 2
    /\ Level(registry, "b") = 1

\* C39: is_emergency is false at construction; check() and get_status()
\* leave it true exactly if it was true or the status they find is
\* emergency, activate() and deactivate() leave it as it is; no operation
\* clears it, and it becomes true only in a state whose status is
\* emergency.
C39_EmergencyLatches ==
    /\ ~safety.emergency_mode
    /\ [](/\ check(Sys, clock).safety.emergency_mode
                 = (\/ safety.emergency_mode
                    \/ CheckOf(registry, clock).status = "emergency")
          /\ get_status(Sys, clock).safety.emergency_mode
                 = (\/ safety.emergency_mode
                    \/ CheckOf(registry, clock).status = "emergency")
          /\ safety.is_active =>
                 intervene(Sys, clock).sys.safety.emergency_mode
                     = (\/ safety.emergency_mode
                        \/ CheckOf(registry, clock).status = "emergency")
          /\ activate(Sys).safety.emergency_mode = safety.emergency_mode
          /\ deactivate(Sys).safety.emergency_mode = safety.emergency_mode)
    /\ [][/\ safety.emergency_mode => safety'.emergency_mode
          /\ (~safety.emergency_mode /\ safety'.emergency_mode)
                 => CheckOf(registry, clock).status = "emergency"]_vars

\* the layer is still in emergency mode, switched on, after a capability
\* decayed, a check found the status emergency, and registrations brought
\* the status back to normal
C39_Witness ==
    /\ safety.emergency_mode
    /\ safety.is_active
    /\ "s2" \in DOMAIN registry.metadata
    /\ Level(registry, "s2") = 1
    /\ CheckOf(registry, clock).status \in {"normal", "caution"}
    /\ safety.interventions = 0

\* C35: when two apply_decay calls on the same capability interleave, no
\* transition is applied twice: the history never holds two events with the
\* same capability and the same new_level, and no level exceeds 3.
C35_NoTransitionTwice ==
    /\ \A i, j \in 1..Len(engine.decay_history) :
          (/\ i # j
           /\ engine.decay_history[i].capability_name
                  = engine.decay_history[j].capability_name)
              => engine.decay_history[i].new_level
                     # engine.decay_history[j].new_level
    /\ \A n \in DOMAIN registry.metadata : Level(registry, n) <= 3

====
